---- MODULE Spec2Model ----
(***************************************************************************)
(* Model of the outage-schedule parser of khm_light_api                    *)
(* (src/app/logic/parser.py): base extraction, change classification and   *)
(* interval reconciliation of Parser.parse_block.                          *)
(*                                                                         *)
(* Text is modelled as a sequence of tokens, one token per lexical unit    *)
(* the regular expressions of the parser recognise.  A time string is the  *)
(* sequence of its digits: a raw time "H:MM" or "HH:MM" of the text is a   *)
(* record [h, m] of digit sequences, a normalised time "HH:MM" is the      *)
(* 4-tuple of its digits, and None (or the empty string) is <<>>.          *)
(***************************************************************************)
EXTENDS Integers, Sequences, FiniteSets, TLC

\* the parser: the block being parsed, the position in parse_block, its local
\* queues and processed, the returned result, and the completed calls of the
\* Parser instance (each with its block and its result)
VARIABLES block, pc, queues, processed, result, calls

\* the rest of the service: the duration calculator, the request being served,
\* the database with the save_schedule calls made so far, and the update in
\* progress
VARIABLES hrs, api, db, saves, svc

parser_vars == <<block, pc, queues, processed, result, calls>>
service_vars == <<hrs, api, db, saves, svc>>
vars == <<parser_vars, service_vars>>

\* a part of the service that takes no part in the behaviours of a specification
Off == [pc |-> "off"]

None == <<>>

(***************************************************************************)
(* Strings of digits                                                       *)
(***************************************************************************)

\* str.zfill(2) on a string of one or two digits
Zfill2(ds) == IF Len(ds) >= 2 THEN ds ELSE IF Len(ds) = 1 THEN <<0>> \o ds ELSE <<0, 0>>

\* Parser._normalize_time: f"{parts[0].zfill(2)}:{parts[1].zfill(2)}"
normalize_time(raw) == Zfill2(raw.h) \o Zfill2(raw.m)

\* Parser._to_minutes: int(h) * 60 + int(m) of a normalised "HH:MM"
to_minutes(t) == (t[1] * 10 + t[2]) * 60 + (t[3] * 10 + t[4])

\* Python's "<" on two normalised time strings (lexicographic on characters)
StrLess(a, b) ==
    \E i \in 1..4 : a[i] < b[i] /\ \A j \in 1..(i - 1) : a[j] = b[j]

\* Python's min / max on two strings: the first argument wins a tie
StrMin(a, b) == IF StrLess(b, a) THEN b ELSE a
StrMax(a, b) == IF StrLess(a, b) THEN b ELSE a

\* abs()
Abs(x) == IF x < 0 THEN -x ELSE x

\* truthiness of a time field: None and "" are falsy
Truthy(t) == t # None

(***************************************************************************)
(* Interval algebra                                                        *)
(***************************************************************************)

Interval(s, e, ty) == [start |-> s, end |-> e, type |-> ty]

\* Parser._overlaps
overlaps(i1, i2) ==
    LET s1 == to_minutes(i1.start)
        e1 == to_minutes(i1.end)
        s2 == to_minutes(i2.start)
        e2 == to_minutes(i2.end)
    IN  ~(e1 <= s2 \/ e2 <= s1)

\* list.sort / sorted are stable: x goes after every element that is not
\* greater than it.
RECURSIVE InsertByStart(_, _)
InsertByStart(sorted, x) ==
    IF sorted = <<>> THEN <<x>>
    ELSE IF StrLess(x.start, Head(sorted).start) THEN <<x>> \o sorted
    ELSE <<Head(sorted)>> \o InsertByStart(Tail(sorted), x)

RECURSIVE SortByStart(_)
\* base.sort(key=lambda x: x["start"]): stable, by the start STRING
SortByStart(s) ==
    IF s = <<>> THEN <<>>
    ELSE InsertByStart(SortByStart(SubSeq(s, 1, Len(s) - 1)), s[Len(s)])

RECURSIVE InsertByMinutes(_, _)
InsertByMinutes(sorted, x) ==
    IF sorted = <<>> THEN <<x>>
    ELSE IF to_minutes(x.start) < to_minutes(Head(sorted).start) THEN <<x>> \o sorted
    ELSE <<Head(sorted)>> \o InsertByMinutes(Tail(sorted), x)

RECURSIVE SortByMinutes(_)
\* sorted(intervals, key=lambda x: self._to_minutes(x["start"])): stable
SortByMinutes(s) ==
    IF s = <<>> THEN <<>>
    ELSE InsertByMinutes(SortByMinutes(SubSeq(s, 1, Len(s) - 1)), s[Len(s)])

\* MergeStep with the start of the running interval compared in place of its end
MergeStepCmpStart(merged, current) ==
    LET last == merged[Len(merged)]
    IN  IF to_minutes(current.start) <= to_minutes(last.start)
        THEN IF to_minutes(current.end) > to_minutes(last.end)
             THEN [merged EXCEPT ![Len(merged)].end = current.end]
             ELSE merged
        ELSE Append(merged, current)

\* one iteration of the loop of _merge_overlapping
MergeStep(merged, current) ==
    LET last == merged[Len(merged)]
    IN  IF to_minutes(current.start) <= to_minutes(last.end)
        THEN IF to_minutes(current.end) > to_minutes(last.end)
             THEN [merged EXCEPT ![Len(merged)].end = current.end]
             ELSE merged
        ELSE Append(merged, current)

RECURSIVE MergeLoop(_, _)
MergeLoop(merged, rest) ==
    IF rest = <<>> THEN merged
    ELSE MergeLoop(MergeStep(merged, Head(rest)), Tail(rest))

\* Parser._merge_overlapping
merge_overlapping(intervals) ==
    IF intervals = <<>> THEN <<>>
    ELSE LET sorted_ints == SortByMinutes(intervals)
         IN  MergeLoop(<<Head(sorted_ints)>>, Tail(sorted_ints))

RECURSIVE NearestLoopLast(_, _, _, _, _, _)
\* NearestLoop with "<=" for "<": the last of several nearest intervals wins
NearestLoopLast(intervals, time_mins, field, i, best_idx, best_diff) ==
    IF i > Len(intervals) THEN best_idx
    ELSE LET diff == Abs(to_minutes(intervals[i][field]) - time_mins)
         IN  IF best_diff = -1 \/ diff <= best_diff
             THEN NearestLoopLast(intervals, time_mins, field, i + 1, i, diff)
             ELSE NearestLoopLast(intervals, time_mins, field, i + 1, best_idx, best_diff)

RECURSIVE NearestLoop(_, _, _, _, _, _)
\* the loop of _find_nearest; best_diff = -1 stands for float("inf")
NearestLoop(intervals, time_mins, field, i, best_idx, best_diff) ==
    IF i > Len(intervals) THEN best_idx
    ELSE LET diff == Abs(to_minutes(intervals[i][field]) - time_mins)
         IN  IF best_diff = -1 \/ diff < best_diff
             THEN NearestLoop(intervals, time_mins, field, i + 1, i, diff)
             ELSE NearestLoop(intervals, time_mins, field, i + 1, best_idx, best_diff)

\* Parser._find_nearest (1-based index; 0 stands for None)
find_nearest(intervals, time, field) ==
    IF intervals = <<>> THEN 0
    ELSE NearestLoop(intervals, to_minutes(time), field, 1, 1, -1)

(***************************************************************************)
(* Reconciliation: Parser._merge_intervals                                 *)
(***************************************************************************)

\* for change in changes: one iteration (lines 147-157)
ShiftStep(base, change) ==
    IF base = <<>> THEN base
    ELSE IF change.type = "change_start" /\ Truthy(change.start)
    THEN [base EXCEPT ![find_nearest(base, change.start, "start")].start = change.start]
    ELSE IF change.type = "change_end" /\ Truthy(change.end)
    THEN [base EXCEPT ![find_nearest(base, change.end, "end")].end = change.end]
    ELSE base

RECURSIVE ShiftLoop(_, _)
ShiftLoop(base, changes) ==
    IF changes = <<>> THEN base
    ELSE ShiftLoop(ShiftStep(base, Head(changes)), Tail(changes))

\* FullStep that replaces the overlapping base interval by the full change
FullStepReplace(base, fc) ==
    LET hit == {i \in 1..Len(base) : overlaps(base[i], fc)}
    IN  IF hit = {}
        THEN Append(base, Interval(fc.start, fc.end, "base"))
        ELSE LET i == CHOOSE k \in hit : \A m \in hit : k <= m
             IN  [base EXCEPT ![i].start = fc.start, ![i].end = fc.end]

\* for fc in full_changes: one iteration (lines 160-169)
FullStep(base, fc) ==
    LET hit == {i \in 1..Len(base) : overlaps(base[i], fc)}
    IN  IF hit = {}
        THEN Append(base, Interval(fc.start, fc.end, "base"))
        ELSE LET i == CHOOSE k \in hit : \A m \in hit : k <= m
             IN  [base EXCEPT ![i].start = StrMin(@, fc.start),
                              ![i].end = StrMax(@, fc.end)]

RECURSIVE FullLoop(_, _)
FullLoop(base, full_changes) ==
    IF full_changes = <<>> THEN base
    ELSE FullLoop(FullStep(base, Head(full_changes)), Tail(full_changes))

RECURSIVE Retag(_)
\* [{"start": .., "end": .., "type": "base"} for .. in ..]
Retag(s) ==
    IF s = <<>> THEN <<>>
    ELSE <<Interval(Head(s).start, Head(s).end, "base")>> \o Retag(Tail(s))

IsBase(i) == i.type = "base" /\ Truthy(i.start) /\ Truthy(i.end)
IsShift(i) == i.type \in {"change_start", "change_end"}
IsFull(i) == i.type = "change" /\ Truthy(i.start) /\ Truthy(i.end)
IsExtra(i) == i.type = "extra" /\ Truthy(i.start) /\ Truthy(i.end)

\* the body of the per-queue loop of _merge_intervals up to the call of
\* _merge_overlapping (lines 139-172)
Combined(intervals) ==
    LET base == SortByStart(SelectSeq(intervals, IsBase))
        changes == SelectSeq(intervals, IsShift)
        full_changes == SelectSeq(intervals, IsFull)
        extras == SelectSeq(intervals, IsExtra)
    IN  FullLoop(ShiftLoop(base, changes), full_changes) \o Retag(extras)

\* the final interval list of one queue (lines 139-177); <<>> when the queue
\* is left out of the result
MergeQueue(intervals) == Retag(merge_overlapping(Combined(intervals)))

\* merge_intervals without the test "if merged"
merge_intervals_keep_empty(qs) == [q \in DOMAIN qs |-> MergeQueue(qs[q])]

\* Parser._merge_intervals
merge_intervals(qs) ==
    LET kept == {q \in DOMAIN qs : MergeQueue(qs[q]) # <<>>}
    IN  [q \in kept |-> MergeQueue(qs[q])]

(***************************************************************************)
(* Text.  Tokens of schedule_text:                                         *)
(*   [k |-> "nl"]                      a line break                        *)
(*   [k |-> "marker", q |-> "1.1"]     a queue marker with its dotted pair *)
(*   [k |-> "range", s |-> r, e |-> r] a time range "from r to r"          *)
(*   [k |-> "word"]                    any other text                      *)
(* Tokens of extras_text, besides "nl", "range" and "word":                *)
(*   [k |-> "ws"]                      blanks                              *)
(*   [k |-> "dash", ch |-> c]          a dash character c                  *)
(*   [k |-> "qref", qs |-> <<..>>]     a queue reference phrase and the    *)
(*                                     dotted pairs that follow it         *)
(*   [k |-> "ranishe", rozp |-> b, t |-> r]  "(will start) earlier at r";  *)
(*                                     rozp: the verb "will start" is there*)
(*   [k |-> "tryv_do", t |-> r]        "will last until r"                 *)
(*   [k |-> "tryv_dovshe", t |-> r]    "will last longer, until r"         *)
(*   [k |-> "dodatkovo"]               "additionally"                      *)
(***************************************************************************)

IsSpace(tok) == tok.k \in {"ws", "nl"}

RECURSIVE SplitNl(_, _)
\* str.split("\n"): cur is the line being collected
SplitNl(text, cur) ==
    IF text = <<>> THEN <<cur>>
    ELSE IF Head(text).k = "nl" THEN <<cur>> \o SplitNl(Tail(text), <<>>)
    ELSE SplitNl(Tail(text), Append(cur, Head(text)))

IsRange(tok) == tok.k = "range"
IsMarker(tok) == tok.k = "marker"

RECURSIVE LineIntervals(_)
\* the list comprehension over TIME_PATTERN.findall(line) (lines 44-47)
LineIntervals(ranges) ==
    IF ranges = <<>> THEN <<>>
    ELSE <<Interval(normalize_time(Head(ranges).s), normalize_time(Head(ranges).e), "base")>>
         \o LineIntervals(Tail(ranges))

\* dict item assignment d[k] = v
Put(d, k, v) == [x \in DOMAIN d \cup {k} |-> IF x = k THEN v ELSE d[x]]

\* one iteration of the loop over the lines of schedule_text (lines 41-49)
BaseLine(qs, line) ==
    LET markers == SelectSeq(line, IsMarker)
        intervals == LineIntervals(SelectSeq(line, IsRange))
    IN  IF markers # <<>> /\ intervals # <<>>
        THEN Put(qs, Head(markers).q, intervals)
        ELSE qs

RECURSIVE BaseLoop(_, _)
BaseLoop(qs, lines) ==
    IF lines = <<>> THEN qs
    ELSE BaseLoop(BaseLine(qs, Head(lines)), Tail(lines))

EmptyDict == [x \in {} |-> <<>>]

\* the base schedule of parse_block (lines 37-49)
base_schedule(schedule_text) == BaseLoop(EmptyDict, SplitNl(schedule_text, <<>>))

\* extras_text.replace of the en and em dash by "-" (line 69)
ReplaceDashes(text) ==
    [i \in DOMAIN text |->
        IF text[i].k = "dash" THEN [text[i] EXCEPT !.ch = "-"] ELSE text[i]]

\* the split pattern matches at a "-" that only blanks separate from a queue
\* reference phrase (line 72)
IsSplitAt(text, i) ==
    /\ text[i].k = "dash"
    /\ text[i].ch = "-"
    /\ \E j \in (i + 1)..Len(text) :
          /\ text[j].k = "qref"
          /\ \A m \in (i + 1)..(j - 1) : IsSpace(text[m])

RECURSIVE SplitEntries(_, _, _)
\* re.split (line 72): cur is the entry being collected, i the position
SplitEntries(text, i, cur) ==
    IF i > Len(text) THEN <<cur>>
    ELSE IF IsSplitAt(text, i) THEN <<cur>> \o SplitEntries(text, i + 1, <<>>)
    ELSE SplitEntries(text, i + 1, Append(cur, text[i]))

RECURSIVE Strip(_)
\* str.strip()
Strip(s) ==
    IF s = <<>> THEN s
    ELSE IF IsSpace(Head(s)) THEN Strip(Tail(s))
    ELSE IF IsSpace(s[Len(s)]) THEN Strip(SubSeq(s, 1, Len(s) - 1))
    ELSE s

RECURSIVE QueueNums(_)
\* queue_nums: the dotted pairs of every queue reference of the entry
\* (lines 81-84)
QueueNums(entry) ==
    IF entry = <<>> THEN <<>>
    ELSE (IF Head(entry).k = "qref" THEN Head(entry).qs ELSE <<>>) \o QueueNums(Tail(entry))

\* the least pair <<i, j>> with entry[i] of kind k1, entry[j] of kind k2 after
\* it and no line break between them (".+?" does not cross a line break);
\* <<>> when the pattern does not match
FirstPair(entry, k1, k2) ==
    LET pairs == {p \in (1..Len(entry)) \X (1..Len(entry)) :
                     /\ p[1] < p[2]
                     /\ entry[p[1]].k = k1
                     /\ entry[p[2]].k = k2
                     /\ \A m \in (p[1] + 1)..(p[2] - 1) : entry[m].k # "nl"}
    IN  IF pairs = {} THEN <<>>
        ELSE CHOOSE p \in pairs :
                \A r \in pairs : p[1] < r[1] \/ (p[1] = r[1] /\ p[2] <= r[2])

\* the least index of the set (the leftmost match); 0 when there is none
FirstIndex(hit) == IF hit = {} THEN 0 ELSE CHOOSE i \in hit : \A j \in hit : i <= j

IsRozp(tok) == tok.k = "ranishe" /\ tok.rozp
IsDovshe(tok) == tok.k = "tryv_dovshe"

\* dict.setdefault(q, []).append(item)
AppendTo(d, q, item) ==
    Put(d, q, IF q \in DOMAIN d THEN Append(d[q], item) ELSE <<item>>)

RECURSIVE FullNumsNoDedup(_, _, _, _)
\* FullNums without the test of the full key of processed
FullNumsNoDedup(st, nums, start, end) ==
    IF nums = <<>> THEN st
    ELSE FullNumsNoDedup(
             [queues |-> AppendTo(st.queues, Head(nums), Interval(start, end, "change")),
              processed |-> st.processed \cup {<<Head(nums), "full">>}],
             Tail(nums), start, end)

RECURSIVE FullNums(_, _, _, _)
\* for q in queue_nums of pattern 1 (lines 96-99); st = [queues, processed]
FullNums(st, nums, start, end) ==
    IF nums = <<>> THEN st
    ELSE LET q == Head(nums)
         IN  FullNums(
                 IF <<q, "full">> \notin st.processed
                 THEN [queues |-> AppendTo(st.queues, q, Interval(start, end, "change")),
                       processed |-> st.processed \cup {<<q, "full">>}]
                 ELSE st,
                 Tail(nums), start, end)

RECURSIVE StartNumsNoDedup(_, _, _)
\* StartNums without the test of the start key of processed
StartNumsNoDedup(st, nums, new_start) ==
    IF nums = <<>> THEN st
    ELSE LET q == Head(nums)
         IN  StartNumsNoDedup(
                 IF <<q, "full">> \notin st.processed
                 THEN [queues |-> AppendTo(st.queues, q, Interval(new_start, None, "change_start")),
                       processed |-> st.processed \cup {<<q, "start">>}]
                 ELSE st,
                 Tail(nums), new_start)

RECURSIVE StartNums(_, _, _)
\* for q in queue_nums of pattern 2 (lines 106-109)
StartNums(st, nums, new_start) ==
    IF nums = <<>> THEN st
    ELSE LET q == Head(nums)
         IN  StartNums(
                 IF <<q, "start">> \notin st.processed /\ <<q, "full">> \notin st.processed
                 THEN [queues |-> AppendTo(st.queues, q, Interval(new_start, None, "change_start")),
                       processed |-> st.processed \cup {<<q, "start">>}]
                 ELSE st,
                 Tail(nums), new_start)

RECURSIVE EndNums(_, _, _)
\* for q in queue_nums of pattern 3 (lines 116-119)
EndNums(st, nums, new_end) ==
    IF nums = <<>> THEN st
    ELSE LET q == Head(nums)
         IN  EndNums(
                 IF <<q, "end">> \notin st.processed
                 THEN [queues |-> AppendTo(st.queues, q, Interval(None, new_end, "change_end")),
                       processed |-> st.processed \cup {<<q, "end">>}]
                 ELSE st,
                 Tail(nums), new_end)

RECURSIVE ExtraNums(_, _, _, _)
\* for q in queue_nums of pattern 4 (lines 126-127)
ExtraNums(st, nums, start, end) ==
    IF nums = <<>> THEN st
    ELSE ExtraNums(
             [st EXCEPT !.queues = AppendTo(@, Head(nums), Interval(start, end, "extra"))],
             Tail(nums), start, end)

\* pattern 1 (lines 90-93): "earlier at T1 ... will last until T2"; the
\* positions of the two phrases, <<>> without a match
Pattern1(entry) == FirstPair(entry, "ranishe", "tryv_do")

\* pattern 2 (line 103): "will start earlier at T"; 0 without a match
Pattern2(entry) == FirstIndex({i \in 1..Len(entry) : IsRozp(entry[i])})

\* pattern 3 (line 113): "will last longer, until T"; 0 without a match
Pattern3(entry) == FirstIndex({i \in 1..Len(entry) : IsDovshe(entry[i])})

\* pattern 4 without the word "additionally": any time range after the queue
\* reference
Pattern4Loose(entry) == FirstPair(entry, "qref", "range")

\* pattern 4 (line 123): "additionally ... from T1 to T2"; the positions of
\* the word and of the range, <<>> without a match
Pattern4(entry) == FirstPair(entry, "dodatkovo", "range")

\* the classification with the patterns tried in the opposite order
EntryKindLastFirst(entry) ==
    IF Pattern4(entry) # <<>> THEN "extra"
    ELSE IF Pattern3(entry) # 0 THEN "end"
    ELSE IF Pattern2(entry) # 0 THEN "start"
    ELSE IF Pattern1(entry) # <<>> THEN "full"
    ELSE "none"

\* which of the four patterns classifies the entry: "full", "start", "end",
\* "extra", or "none" (lines 89-124, first match wins)
EntryKind(entry) ==
    IF Pattern1(entry) # <<>> THEN "full"
    ELSE IF Pattern2(entry) # 0 THEN "start"
    ELSE IF Pattern3(entry) # 0 THEN "end"
    ELSE IF Pattern4(entry) # <<>> THEN "extra"
    ELSE "none"

\* one iteration of the loop over the entries (lines 75-127)
EntryStep(st, raw_entry) ==
    LET entry == Strip(raw_entry)
        queue_nums == QueueNums(entry)
        kind == EntryKind(entry)
        p1 == Pattern1(entry)
        p4 == Pattern4(entry)
    IN  IF entry = <<>> \/ queue_nums = <<>> THEN st
        ELSE IF kind = "full"
        THEN FullNums(st, queue_nums, normalize_time(entry[p1[1]].t),
                      normalize_time(entry[p1[2]].t))
        ELSE IF kind = "start"
        THEN StartNums(st, queue_nums, normalize_time(entry[Pattern2(entry)].t))
        ELSE IF kind = "end"
        THEN EndNums(st, queue_nums, normalize_time(entry[Pattern3(entry)].t))
        ELSE IF kind = "extra"
        THEN ExtraNums(st, queue_nums, normalize_time(entry[p4[2]].s),
                       normalize_time(entry[p4[2]].e))
        ELSE st

RECURSIVE EntryLoop(_, _)
EntryLoop(st, entries) ==
    IF entries = <<>> THEN st
    ELSE EntryLoop(EntryStep(st, Head(entries)), Tail(entries))

\* the set processed left by an earlier call, and "processed = set()"
\* (line 73)
KeptProcessed == processed
NewProcessed == {}

\* Parser._apply_changes: the queues it leaves and its local set processed
apply_changes(extras_text, qs) ==
    EntryLoop([queues |-> qs, processed |-> NewProcessed],
              SplitEntries(ReplaceDashes(extras_text), 1, <<>>))

(***************************************************************************)
(* Parser.parse_block                                                      *)
(***************************************************************************)

MsgNone == [none |-> TRUE, text |-> <<>>]
MsgText(t) == [none |-> FALSE, text |-> t]

\* "message": extras_text if extras_text else None (line 59)
Message(extras_text) == IF extras_text # <<>> THEN MsgText(extras_text) ELSE MsgNone

\* the queues handed to _merge_intervals (lines 37-54)
RawQueues(b) ==
    IF b.extras_text # <<>>
    THEN apply_changes(b.extras_text, base_schedule(b.schedule_text)).queues
    ELSE base_schedule(b.schedule_text)

\* Parser.parse_block as a function of the block
parse_block(b) ==
    [date |-> b.date,
     queues |-> merge_intervals(RawQueues(b)),
     message |-> Message(b.extras_text)]

(***************************************************************************)
(* Input blocks, as Scraper.extract_blocks hands them to the parser        *)
(***************************************************************************)

\* the largest number of time mentions (time ranges of the base table plus
\* announcements) of a block
MaxItems == 3

RawTime(h, m) == [h |-> h, m |-> m]

T0800 == RawTime(<<8>>, <<0, 0>>)
T0900 == RawTime(<<9>>, <<0, 0>>)
T1000 == RawTime(<<1, 0>>, <<0, 0>>)
T1100 == RawTime(<<1, 1>>, <<0, 0>>)
T0960 == RawTime(<<0, 9>>, <<6, 0>>)
T2500 == RawTime(<<2, 5>>, <<0, 0>>)

\* "8:00", "9:00", "10:00"
Times == {T0800, T0900, T1000}
\* with "11:00": two intervals can overlap without sharing an end point
Times4 == Times \cup {T1100}
\* with "09:60" and "25:00", which TIME_PATTERN accepts; "09:60" is the same
\* minute as "10:00"
TimesBad == {T0900, T0960, T1000, T2500}

Marker(q) == [k |-> "marker", q |-> q]
Range(s, e) == [k |-> "range", s |-> s, e |-> e]
Nl == [k |-> "nl"]
Ws == [k |-> "ws"]
Word == [k |-> "word"]
Dash == [k |-> "dash", ch |-> "en"]
Qref(qs) == [k |-> "qref", qs |-> qs]

\* the paragraphs of announcements: a dash, a queue reference, a phrase
FullText(qs, t1, t2) ==
    <<Dash, Ws, Qref(qs), [k |-> "ranishe", rozp |-> TRUE, t |-> t1], Ws,
      [k |-> "tryv_do", t |-> t2]>>
StartText(qs, t) == <<Dash, Ws, Qref(qs), [k |-> "ranishe", rozp |-> TRUE, t |-> t]>>
EndText(qs, t) == <<Dash, Ws, Qref(qs), [k |-> "tryv_dovshe", t |-> t]>>
ExtraText(qs, s, e) == <<Dash, Ws, Qref(qs), [k |-> "dodatkovo"], Ws, Range(s, e)>>

Ranges(ts) == {Range(s, e) : s \in ts, e \in ts}
Fulls(qss, ts) == {FullText(qs, t1, t2) : qs \in qss, t1 \in ts, t2 \in ts}
Starts(qss, ts) == {StartText(qs, t) : qs \in qss, t \in ts}
Ends(qss, ts) == {EndText(qs, t) : qs \in qss, t \in ts}
Extras(qss, ts) == {ExtraText(qs, s, e) : qs \in qss, s \in ts, e \in ts}

\* paragraphs without any announcement phrase
Prose(qss) ==
    {<<Word>>, <<Word, Ws, Range(T0800, T0900)>>}
    \cup {<<Dash, Ws, Qref(qs), Ws, Word>> : qs \in qss}
    \cup {<<Dash, Ws, Qref(qs), Ws, Range(T0900, T1000)>> : qs \in qss}

RECURSIVE Paragraphs(_)
\* extras_text += text + "\n" for every paragraph (scraper.py line 124)
Paragraphs(ps) == IF ps = <<>> THEN <<>> ELSE Head(ps) \o <<Nl>> \o Paragraphs(Tail(ps))

\* the block of extract_blocks (scraper.py lines 134-139): the line of one
\* queue of the base table, and the stripped paragraphs of announcements
Block(q, ranges, paragraphs) ==
    [date |-> "2026-01-15",
     schedule_text |-> <<Marker(q)>> \o ranges \o <<Nl>>,
     extras_text |-> Strip(Paragraphs(paragraphs))]

\* the blocks with b time ranges from R, then the paragraphs of P, then e
\* paragraphs from A
Shaped(R, P, A, b, e) ==
    {Block("1.1", rs, p \o as) : rs \in [1..b -> R], p \in P, as \in [1..e -> A]}

\* ... for every b and e with b + e <= n
Sized(R, P, A, n) ==
    UNION {Shaped(R, P, A, x[1], x[2]) :
              x \in {y \in (0..n) \X (0..n) : y[1] + y[2] <= n}}

Q1 == {<<"1.1">>}

OneOf(S) == {<<x>> : x \in S}

\* base ranges, at most one full replacement, supplementary outages
FamMerge(n) ==
    Sized(Ranges(Times), {<<>>}, Extras(Q1, Times), n)
    \cup Sized(Ranges(Times), OneOf(Fulls(Q1, Times)), Extras(Q1, Times), n - 1)

\* base ranges and shifts of the start or of the end
FamShift(n) ==
    Sized(Ranges(Times), {<<>>}, Starts(Q1, Times) \cup Ends(Q1, Times), n)

\* base ranges and paragraphs of every kind
FamAny(n) ==
    Sized(Ranges(Times), {<<>>},
          Fulls(Q1, Times) \cup Starts(Q1, Times) \cup Ends(Q1, Times)
              \cup Extras(Q1, Times) \cup Prose(Q1),
          n - 1)

\* base ranges and one full replacement over four times
FamFour(n) == Sized(Ranges(Times4), OneOf(Fulls(Q1, Times4)), {}, n - 2)

\* base ranges and supplementary outages with a minute field of 60 or an hour
\* field of 25
FamBad(n) == Sized(Ranges(TimesBad), {<<>>}, Extras(Q1, TimesBad), n - 1)

\* the blocks with up to n time mentions
Blocks(n) == FamMerge(n) \cup FamShift(n) \cup FamAny(n) \cup FamFour(n) \cup FamBad(n)

\* the largest number of announcement paragraphs of a block of EntryBlocks
MaxEntries == 2

\* paragraphs that match two patterns: a start shift and an end shift, or an
\* end shift and a supplementary outage
StartEndText(qs, t1, t2) ==
    <<Dash, Ws, Qref(qs), [k |-> "ranishe", rozp |-> TRUE, t |-> t1], Ws,
      [k |-> "tryv_dovshe", t |-> t2]>>
EndExtraText(qs, t, s, e) ==
    <<Dash, Ws, Qref(qs), [k |-> "tryv_dovshe", t |-> t], Ws, [k |-> "dodatkovo"], Ws,
      Range(s, e)>>

\* a paragraph with an announcement phrase and no queue reference
NoQueueText == <<Word, Ws, [k |-> "dodatkovo"], Ws, Range(T1000, T1100)>>

\* the dotted pairs after a queue reference phrase: one queue, two queues, a
\* pair outside the grammar of queue identifiers
QueueLists == {<<"1.1">>, <<"1.1", "1.2">>, <<"1.3">>}

\* the announcements of one list of queues: two full replacements, start
\* shifts, end shifts and supplementary outages, alone and combined
Announcements(qs) ==
    {FullText(qs, T0800, T1000), FullText(qs, T0900, T1100),
     StartText(qs, T0900), StartEndText(qs, T0800, T1000),
     EndText(qs, T1000), EndExtraText(qs, T1100, T0900, T1000),
     ExtraText(qs, T0900, T1000)}

EntryParagraphs ==
    UNION {Announcements(qs) : qs \in QueueLists}
        \cup {NoQueueText, ExtraText(<<>>, T0900, T1000)}

\* the blocks with one line of the base table, of a queue or of a dotted pair
\* outside the grammar, and up to MaxEntries paragraphs of announcements
EntryBlocks ==
    {Block(q, <<Range(T0800, T0900)>>, ps) :
        q \in {"1.1", "7.1"},
        ps \in UNION {[1..n -> EntryParagraphs] : n \in 0..MaxEntries}}

(***************************************************************************)
(* The state machine: one call of parse_block                              *)
(***************************************************************************)

NoResult == [date |-> "", queues |-> EmptyDict, message |-> MsgNone]

ServiceOff == hrs = Off /\ api = Off /\ db = Off /\ saves = <<>> /\ svc = Off

\* a fresh Parser instance called with block b
Called(b) ==
    /\ block = b
    /\ pc = "base"
    /\ queues = EmptyDict
    /\ processed = {}
    /\ result = NoResult
    /\ calls = <<>>

Init ==
    /\ \E b \in Blocks(MaxItems) : Called(b)
    /\ ServiceOff

\* parse_block, lines 37-49: the base schedule
ParseBase ==
    /\ pc = "base"
    /\ queues' = base_schedule(block.schedule_text)
    /\ pc' = "changes"
    /\ UNCHANGED <<block, processed, result, calls, service_vars>>

\* parse_block, lines 52-54, extras_text not empty
ApplyChanges ==
    /\ pc = "changes"
    /\ block.extras_text # <<>>
    /\ LET st == apply_changes(block.extras_text, queues)
       IN  /\ queues' = st.queues
           /\ processed' = st.processed
    /\ pc' = "merge"
    /\ UNCHANGED <<block, result, calls, service_vars>>

\* parse_block, lines 52-53, extras_text empty
SkipChanges ==
    /\ pc = "changes"
    /\ block.extras_text = <<>>
    /\ pc' = "merge"
    /\ UNCHANGED <<block, queues, processed, result, calls, service_vars>>

\* parse_block, lines 56-60
Return ==
    /\ pc = "merge"
    /\ result' = [date |-> block.date,
                  queues |-> merge_intervals(queues),
                  message |-> Message(block.extras_text)]
    /\ calls' = Append(calls, [block |-> block, result |-> result'])
    /\ pc' = "done"
    /\ UNCHANGED <<block, queues, processed, service_vars>>

Next == ParseBase \/ ApplyChanges \/ SkipChanges \/ Return

Spec == Init /\ [][Next]_vars

\* one call of parse_block on a block of EntryBlocks
InitEntries ==
    /\ \E b \in EntryBlocks : Called(b)
    /\ ServiceOff

SpecEntries == InitEntries /\ [][Next]_vars

\* the largest number of calls of parse_block on one Parser
MaxCalls == 3

\* blocks with a start shift, a full replacement, an end shift and a
\* supplementary outage for queue 1.1, and one without announcements
CallBlocks ==
    {Block("1.1", <<Range(T0900, T1000)>>, ps) :
        ps \in {<<StartText(<<"1.1">>, T0800)>>,
                <<FullText(<<"1.1">>, T0800, T1100)>>,
                <<EndText(<<"1.1">>, T1100)>>,
                <<ExtraText(<<"1.1">>, T0800, T0900)>>,
                <<>>}}

\* the next call of parse_block on the same Parser: the locals of the call
\* before are what they were until the call assigns them
NextCall ==
    /\ pc = "done"
    /\ Len(calls) < MaxCalls
    /\ \E b \in CallBlocks : block' = b
    /\ pc' = "base"
    /\ UNCHANGED <<queues, processed, result, calls, service_vars>>

InitCalls ==
    /\ \E b \in CallBlocks : Called(b)
    /\ ServiceOff

NextCalls == Next \/ NextCall

SpecCalls == InitCalls /\ [][NextCalls]_vars

\* the largest number of tokens of the base table
MaxTokens == 4

\* the base table as any text of up to MaxTokens markers, time ranges and
\* line breaks before the line break that ends it, with or without a
\* supplementary outage announced
LineBlocks ==
    {[date |-> "2026-01-15",
      schedule_text |-> text \o <<Nl>>,
      extras_text |-> Strip(Paragraphs(ps))] :
        text \in UNION {[1..n -> {Marker("1.1"), Marker("1.2"), Range(T0800, T0900),
                                   Range(T1000, T1100), Nl}] : n \in 1..MaxTokens},
        ps \in {<<>>, <<ExtraText(<<"1.2">>, T0900, T1000)>>}}

\* one call of parse_block on a block of LineBlocks
InitLines ==
    /\ \E b \in LineBlocks : Called(b)
    /\ ServiceOff

SpecLines == InitLines /\ [][Next]_vars

\* a time with a minute field of 75, which TIME_PATTERN accepts
T0975 == RawTime(<<0, 9>>, <<7, 5>>)

TimesOver == {T0800, T0900, T0975, T1000}

\* the blocks with base ranges, at most one full replacement and supplementary
\* outages over TimesOver, no overnight range among them
SameDayRanges(ts) == {r \in Ranges(ts) :
                        to_minutes(normalize_time(r.s)) < to_minutes(normalize_time(r.e))}
SameDayFulls(qss, ts) ==
    {FullText(qs, r.s, r.e) : qs \in qss, r \in SameDayRanges(ts)}
SameDayExtras(qss, ts) ==
    {ExtraText(qs, r.s, r.e) : qs \in qss, r \in SameDayRanges(ts)}

CoverBlocks ==
    Sized(SameDayRanges(TimesOver), {<<>>} \cup OneOf(SameDayFulls(Q1, TimesOver)),
          SameDayExtras(Q1, TimesOver), MaxItems - 1)

\* one call of parse_block on a block of CoverBlocks
InitCover ==
    /\ \E b \in CoverBlocks : Called(b)
    /\ ServiceOff

SpecCover == InitCover /\ [][Next]_vars

(***************************************************************************)
(* The duration calculator: calculate_hours of main.py                     *)
(*                                                                         *)
(* A time string is the sequence of its colon-separated fields, each field *)
(* the sequence of its characters: a digit is 0..9, any other character    *)
(* is -1.  The empty string is its one empty field, <<<<>>>>; None, and the *)
(* value of a key the dict does not have, is <<>>.                         *)
(***************************************************************************)

\* the largest number of intervals handed to calculate_hours
MaxIntervals == 2

IsDigits(f) == \A i \in 1..Len(f) : f[i] \in 0..9

\* int() of a field of one or two digits
FieldValue(f) == IF Len(f) = 1 THEN f[1] ELSE f[1] * 10 + f[2]

\* datetime.strptime(s, "%H:%M") succeeds: one or two digits for the hour,
\* at most 23, a colon, one or two digits for the minute, at most 59, and
\* nothing else
ParsesHM(str) ==
    /\ Len(str) = 2
    /\ Len(str[1]) \in 1..2 /\ IsDigits(str[1]) /\ FieldValue(str[1]) <= 23
    /\ Len(str[2]) \in 1..2 /\ IsDigits(str[2]) /\ FieldValue(str[2]) <= 59

\* minutes since midnight of the datetime strptime returns
MinuteOfDay(str) == FieldValue(str[1]) * 60 + FieldValue(str[2])

EmptyStr == <<<<>>>>

\* a or b of two values that are None or strings: None and "" are falsy
Or(a, b) == IF a # None /\ a # EmptyStr THEN a ELSE b

\* the exception the body of the try raises for the item of the list, or
\* "none" (lines 94-97): an item that is no dict has no get, strptime of
\* None is a TypeError, of a string it cannot parse a ValueError
Raised(item) ==
    IF ~item.dict THEN "AttributeError"
    ELSE LET start_str == Or(item.start_time, item.start)
             end_str == Or(item.end_time, item.end)
         IN  IF start_str = None THEN "TypeError"
             ELSE IF ~ParsesHM(start_str) THEN "ValueError"
             ELSE IF end_str = None THEN "TypeError"
             ELSE IF ~ParsesHM(end_str) THEN "ValueError"
             ELSE "none"

\* except clause that names ValueError alone
CaughtValueErrorOnly == {"ValueError"}

\* except (ValueError, TypeError, AttributeError) (line 106)
Caught == {"ValueError", "TypeError", "AttributeError"}

\* diff_minutes of an item whose times parse (lines 100-104)
DiffMinutes(item) ==
    LET start == MinuteOfDay(Or(item.start_time, item.start))
        end == MinuteOfDay(Or(item.end_time, item.end))
    IN  IF end > start THEN end - start
        ELSE 24 * 60 - start + end

\* round(total_minutes / 60, 1), in tenths of an hour: the nearest tenth;
\* when total_minutes / 60 lies halfway between two tenths the binary value
\* of the quotient decides, and either neighbour is possible
RoundTenths(total_minutes) ==
    IF total_minutes % 6 = 3
    THEN {total_minutes \div 6, total_minutes \div 6 + 1}
    ELSE {(total_minutes + 3) \div 6}

HrsCalled(intervals) ==
    hrs = [pc |-> "loop", intervals |-> intervals, i |-> 1, total_minutes |-> 0,
           raised |-> "none", out |-> -1]

\* one iteration of the loop whose try body completes (lines 92-105)
HoursAdd ==
    /\ hrs.pc = "loop"
    /\ hrs.i <= Len(hrs.intervals)
    /\ Raised(hrs.intervals[hrs.i]) = "none"
    /\ hrs' = [hrs EXCEPT !.total_minutes = @ + DiffMinutes(hrs.intervals[hrs.i]),
                          !.i = @ + 1]
    /\ UNCHANGED <<parser_vars, api, db, saves, svc>>

\* one iteration whose try body raises: the except clause continues with the
\* next item (lines 106-107); any other exception leaves calculate_hours
HoursSkip ==
    /\ hrs.pc = "loop"
    /\ hrs.i <= Len(hrs.intervals)
    /\ Raised(hrs.intervals[hrs.i]) # "none"
    /\ hrs' = IF Raised(hrs.intervals[hrs.i]) \in Caught
              THEN [hrs EXCEPT !.i = @ + 1]
              ELSE [hrs EXCEPT !.pc = "raised", !.raised = Raised(hrs.intervals[hrs.i])]
    /\ UNCHANGED <<parser_vars, api, db, saves, svc>>

\* return round(total_minutes / 60, 1) (line 109)
HoursReturn ==
    /\ hrs.pc = "loop"
    /\ hrs.i > Len(hrs.intervals)
    /\ \E tenths \in RoundTenths(hrs.total_minutes) :
          hrs' = [hrs EXCEPT !.pc = "done", !.out = tenths]
    /\ UNCHANGED <<parser_vars, api, db, saves, svc>>

NextHours == HoursAdd \/ HoursSkip \/ HoursReturn

RECURSIVE total_minutes(_)
\* total_minutes after the loop over a list none of whose items raises an
\* exception the except clause does not catch (lines 91-107)
total_minutes(intervals) ==
    IF intervals = <<>> THEN 0
    ELSE LET item == intervals[Len(intervals)]
             before == total_minutes(SubSeq(intervals, 1, Len(intervals) - 1))
         IN  IF Raised(item) = "none" THEN before + DiffMinutes(item) ELSE before

\* the strings "02:00", "04:00", "09:00", "23:00"
H0200 == <<<<0, 2>>, <<0, 0>>>>
H0400 == <<<<0, 4>>, <<0, 0>>>>
H0900 == <<<<0, 9>>, <<0, 0>>>>
H2300 == <<<<2, 3>>, <<0, 0>>>>
\* "24:00", "09:60" and "abc"
H2400 == <<<<2, 4>>, <<0, 0>>>>
H0960 == <<<<0, 9>>, <<6, 0>>>>
Habc == <<<<-1, -1, -1>>>>

HourTimes == {H0200, H0400, H0900, H2300}

\* a dict with the keys of a database row (start_time, end_time), and one
\* with the keys of a parsed interval (start, end)
RowItem(s, e) == [dict |-> TRUE, start_time |-> s, start |-> None, end_time |-> e, end |-> None]
ParsedItem(s, e) == [dict |-> TRUE, start_time |-> None, start |-> s, end_time |-> None, end |-> e]
\* an item of the list that is no dict
NotADict == [dict |-> FALSE]

HourItems ==
    {RowItem(s, e) : s, e \in HourTimes}
        \cup {RowItem(None, H0900), RowItem(H2400, H0900), RowItem(H0900, H0960),
              RowItem(H0900, Habc), RowItem(H0400, EmptyStr),
              ParsedItem(H0400, H0900), NotADict}

\* one call of calculate_hours on a list of up to MaxIntervals items
InitHours ==
    /\ \E n \in 0..MaxIntervals : \E intervals \in [1..n -> HourItems] : HrsCalled(intervals)
    /\ block = <<>> /\ pc = "off" /\ queues = EmptyDict /\ processed = {}
    /\ result = NoResult /\ calls = <<>>
    /\ api = Off /\ db = Off /\ saves = <<>> /\ svc = Off

SpecHours == InitHours /\ [][NextHours]_vars

(***************************************************************************)
(* The database: Database of app/db/database.py                            *)
(*                                                                         *)
(* A table is the sequence of its rows in the order of their insertion.    *)
(* The table queues is the fixed sequence of the 12 seeded names, the id   *)
(* of a name its position.  NULL is None.                                  *)
(***************************************************************************)

\* the largest number of save_schedule calls
MaxSaves == 2

\* queues after _init_db (lines 84-88)
SeededQueues ==
    <<"1.1", "1.2", "2.1", "2.2", "3.1", "3.2", "4.1", "4.2", "5.1", "5.2", "6.1", "6.2">>

\* (SELECT id FROM queues WHERE name = ?): the id, in a tuple of its own, or
\* NULL when there is no such name
QueueIdOf(name) ==
    IF \E i \in 1..Len(SeededQueues) : SeededQueues[i] = name
    THEN <<CHOOSE i \in 1..Len(SeededQueues) : SeededQueues[i] = name>>
    ELSE None

\* the database after Database() on a new file: empty tables, no metadata
DbNew == [schedules |-> <<>>, daily_messages |-> <<>>, last_updated |-> None]

RECURSIVE DeleteDate(_, _)
\* DELETE FROM <table> WHERE day_date = ? (lines 107, 108)
DeleteDate(rows, date) ==
    IF rows = <<>> THEN <<>>
    ELSE (IF Head(rows).day_date = date THEN <<>> ELSE <<Head(rows)>>)
         \o DeleteDate(Tail(rows), date)

\* save_schedule that leaves the stored message of the date in place
KeepMessages(rows, date) == rows

\* DELETE FROM daily_messages WHERE day_date = ? (line 108)
DeleteMessages(rows, date) == DeleteDate(rows, date)

\* the row of one interval (lines 113-118)
ScheduleRow(queue_name, date, interval) ==
    [queue_id |-> QueueIdOf(queue_name), day_date |-> date,
     start_time |-> interval.start, end_time |-> interval.end, type |-> interval.type]

\* the NOT NULL constraints of the table schedules (lines 57-60)
RowAllowed(row) == row.queue_id # None /\ row.start_time # None /\ row.end_time # None

RECURSIVE IntervalRows(_, _, _)
IntervalRows(queue_name, date, intervals) ==
    IF intervals = <<>> THEN <<>>
    ELSE <<ScheduleRow(queue_name, date, Head(intervals))>>
         \o IntervalRows(queue_name, date, Tail(intervals))

RECURSIVE AllRows(_, _)
\* the rows of the loop over schedules.items() (lines 111-118); items is the
\* sequence of the pairs <<queue_name, intervals>> of the dict
AllRows(items, date) ==
    IF items = <<>> THEN <<>>
    ELSE IntervalRows(Head(items)[1], date, Head(items)[2]) \o AllRows(Tail(items), date)

\* the items of a dict given as a function, in some order: the order of the
\* rows of different queues is not visible to any query
DictItems(d) ==
    LET order == CHOOSE f \in [1..Cardinality(DOMAIN d) -> DOMAIN d] :
                     \A i, j \in 1..Cardinality(DOMAIN d) : i # j => f[i] # f[j]
    IN  [i \in 1..Cardinality(DOMAIN d) |-> <<order[i], d[order[i]]>>]

\* an exception inside "with self._connect() as conn" (line 105) that is not
\* rolled back: what the statements before it did stays
NoRollback(dbs, partial) == partial

\* an exception inside "with self._connect() as conn" (line 105): the
\* connection rolls the transaction back, the database is what it was
Rollback(dbs, partial) == dbs

\* Database.save_schedule (lines 105-132): the database it leaves and whether
\* it raised; an insert that breaks a constraint raises, and the connection
\* context manager rolls the transaction back
save_schedule(dbs, date, schedules, message, now) ==
    LET rows == AllRows(DictItems(schedules), date)
        old_messages == DeleteMessages(dbs.daily_messages, date)
        partial == [schedules |-> DeleteDate(dbs.schedules, date),
                    daily_messages |-> old_messages,
                    last_updated |-> dbs.last_updated]
    IN  IF \E i \in 1..Len(rows) : ~RowAllowed(rows[i])
        THEN [db |-> Rollback(dbs, partial), raised |-> TRUE]
        ELSE IF Strip(message) # <<>>
                /\ \E i \in 1..Len(old_messages) : old_messages[i].day_date = date
        THEN [db |-> Rollback(dbs, partial), raised |-> TRUE]
        ELSE [db |-> [schedules |-> partial.schedules \o rows,
                      daily_messages |->
                          IF Strip(message) # <<>>
                          THEN Append(old_messages, [day_date |-> date, message |-> Strip(message)])
                          ELSE old_messages,
                      last_updated |-> now],
              raised |-> FALSE]

RECURSIVE InsertRowByStart(_, _)
InsertRowByStart(sorted, x) ==
    IF sorted = <<>> THEN <<x>>
    ELSE IF StrLess(x.start_time, Head(sorted).start_time) THEN <<x>> \o sorted
    ELSE <<Head(sorted)>> \o InsertRowByStart(Tail(sorted), x)

RECURSIVE OrderByStart(_)
\* ORDER BY start_time: by the text of the time; rows with the same start are
\* left in the order of their insertion
OrderByStart(rows) ==
    IF rows = <<>> THEN <<>>
    ELSE InsertRowByStart(OrderByStart(SubSeq(rows, 1, Len(rows) - 1)), rows[Len(rows)])

RECURSIVE RowsOf(_, _, _)
\* the rows of one queue and one date, as the dicts the queries return
RowsOf(rows, queue, date) ==
    IF rows = <<>> THEN <<>>
    ELSE (IF Head(rows).queue_id = QueueIdOf(queue) /\ Head(rows).day_date = date
          THEN <<[start_time |-> Head(rows).start_time, end_time |-> Head(rows).end_time,
                  type |-> Head(rows).type]>>
          ELSE <<>>)
         \o RowsOf(Tail(rows), queue, date)

\* Database.get_schedule (lines 145-153)
get_schedule(dbs, queue, date) ==
    IF QueueIdOf(queue) = None THEN <<>>
    ELSE OrderByStart(RowsOf(dbs.schedules, queue, date))

\* Database.get_all_schedules (lines 165-185): a dict from the names of the
\* queues with rows for the date to their rows
get_all_schedules(dbs, date) ==
    LET names == {SeededQueues[i] : i \in 1..Len(SeededQueues)}
        present == {q \in names : RowsOf(dbs.schedules, q, date) # <<>>}
    IN  [q \in present |-> OrderByStart(RowsOf(dbs.schedules, q, date))]

\* Database.get_message (lines 197-203): the message or None
get_message(dbs, date) ==
    LET hit == {i \in 1..Len(dbs.daily_messages) : dbs.daily_messages[i].day_date = date}
    IN  IF hit = {} THEN None ELSE dbs.daily_messages[CHOOSE i \in hit : TRUE].message

\* Database.get_metadata("last_updated") (lines 228-233)
get_metadata(dbs) == dbs.last_updated

\* normalised times and intervals as parse_block returns them
N0800 == normalize_time(T0800)
N0900 == normalize_time(T0900)
N1000 == normalize_time(T1000)
Base(s, e) == Interval(s, e, "base")

Dates == {"2026-01-15", "2026-01-16"}

\* the schedules handed to save_schedule: none, one queue, two queues with
\* intervals out of order and repeated, a queue with an empty list, a queue
\* that is not seeded, an interval without an end
SavedSchedules ==
    {EmptyDict,
     [q \in {"1.1"} |-> <<Base(N0800, N0900)>>],
     [q \in {"1.1", "2.1"} |->
         IF q = "1.1" THEN <<Base(N0900, N1000), Base(N0800, N0900), Base(N0900, N1000)>>
         ELSE <<Base(N0800, N1000)>>],
     [q \in {"1.2", "2.1"} |-> IF q = "1.2" THEN <<Base(N0800, N0900)>> ELSE <<>>],
     [q \in {"1.1", "7.1"} |-> <<Base(N0900, N1000)>>],
     [q \in {"1.1"} |-> <<Base(N0800, N0900), Interval(N0900, None, "base")>>]}

\* the messages handed to save_schedule: None, blanks, a word, words with
\* blanks around them
SavedMessages == {None, <<Ws>>, <<Word>>, <<Ws, Word, Ws, Word, Nl>>}

\* one call of save_schedule, whole: the database it leaves, and the call in
\* the list of the calls made
SaveSchedule ==
    /\ Len(saves) < MaxSaves
    /\ \E date \in Dates, schedules \in SavedSchedules, message \in SavedMessages :
          LET r == save_schedule(db, date, schedules, message, Len(saves) + 1)
          IN  /\ db' = r.db
              /\ saves' = Append(saves, [date |-> date, schedules |-> schedules,
                                         message |-> message, raised |-> r.raised])
    /\ UNCHANGED <<parser_vars, hrs, api, svc>>

InitDb ==
    /\ db = DbNew
    /\ saves = <<>>
    /\ block = <<>> /\ pc = "off" /\ queues = EmptyDict /\ processed = {}
    /\ result = NoResult /\ calls = <<>>
    /\ hrs = Off /\ api = Off /\ svc = Off

NextDb == SaveSchedule

SpecDb == InitDb /\ [][NextDb]_vars

(***************************************************************************)
(* The HTTP endpoints of main.py                                           *)
(*                                                                         *)
(* A path or query parameter is a sequence of characters: a digit is the   *)
(* integer 0..9, every other character a negative code.  The database of   *)
(* this part keys its rows by dates in the same form.                      *)
(***************************************************************************)

\* the characters other than digits: ".", "-", a line feed, a letter
Chr == [dot |-> -1, hyphen |-> -2, newline |-> -3, letter |-> -4]

IsDigit(c) == c \in 0..9

\* re.match("^...$", s): "$" matches at the end of the string and also
\* before a line feed that ends the string
AtEnd(s, n) == Len(s) = n \/ (Len(s) = n + 1 /\ s[n + 1] = Chr.newline)

\* validate_queue: re.match(r"^[1-6]\.[1-2]$", queue)
validate_queue(queue) ==
    /\ Len(queue) >= 3
    /\ queue[1] \in 1..6
    /\ queue[2] = Chr.dot
    /\ queue[3] \in 1..2
    /\ AtEnd(queue, 3)

\* re.match(r"^\d{4}-\d{2}-\d{2}$", date_str)
DatePattern(s) ==
    /\ Len(s) >= 10
    /\ \A i \in {1, 2, 3, 4, 6, 7, 9, 10} : IsDigit(s[i])
    /\ s[5] = Chr.hyphen /\ s[8] = Chr.hyphen
    /\ AtEnd(s, 10)

IsLeap(y) == y % 4 = 0 /\ (y % 100 # 0 \/ y % 400 = 0)

DaysIn(y, m) ==
    IF m = 2 THEN (IF IsLeap(y) THEN 29 ELSE 28)
    ELSE IF m \in {4, 6, 9, 11} THEN 30 ELSE 31

\* datetime.strptime(date_str, "%Y-%m-%d") returns, for a string the
\* pattern above matched: nothing may follow the day, the month is 01..12,
\* the day 01..31 and within the month, the year at least 1
Strptime(s) ==
    LET y == s[1] * 1000 + s[2] * 100 + s[3] * 10 + s[4]
        m == s[6] * 10 + s[7]
        d == s[9] * 10 + s[10]
    IN  /\ Len(s) = 10
        /\ y >= 1
        /\ m \in 1..12
        /\ d \in 1..DaysIn(y, m)

\* validate_date (lines 72-78)
validate_date(date_str) == DatePattern(date_str) /\ Strptime(date_str)

\* the characters of the i-th seeded queue name
SeededChars(i) == <<(i + 1) \div 2, Chr.dot, ((i - 1) % 2) + 1>>

\* the queue name a parameter spells, as the database compares it with the
\* names of the queues table; "?" for a string that is none of them
NameOf(queue) ==
    IF \E i \in 1..Len(SeededQueues) : SeededChars(i) = queue
    THEN SeededQueues[CHOOSE i \in 1..Len(SeededQueues) : SeededChars(i) = queue]
    ELSE "?"

\* a stored "HH:MM" as calculate_hours reads it
HM(t) == <<<<t[1], t[2]>>, <<t[3], t[4]>>>>

\* the intervals of a response (lines 218 and 244), and the rows as
\* calculate_hours gets them
Normalized(data) ==
    [i \in 1..Len(data) |->
        [start |-> data[i].start_time, end |-> data[i].end_time, type |-> data[i].type]]
HourRows(data) ==
    [i \in 1..Len(data) |-> RowItem(HM(data[i].start_time), HM(data[i].end_time))]

\* raise HTTPException(status_code=400): nothing was read
Rejected(endpoint, queue, day) ==
    [pc |-> "responded", endpoint |-> endpoint, queue |-> queue, day |-> day,
     status_code |-> 400, lookups |-> <<>>, body |-> None]

\* the 200 response of the two /schedule endpoints (lines 217-232 and
\* 243-254) with the reads of the database in the order they are made
ScheduleResponse(endpoint, queue, day, target, tenths) ==
    LET data == get_schedule(db, NameOf(queue), target)
    IN  [pc |-> "responded", endpoint |-> endpoint, queue |-> queue, day |-> day,
         status_code |-> 200,
         lookups |-> <<"get_schedule", "get_message", "get_metadata">>,
         body |-> [queue |-> queue, date |-> target,
                   status |-> IF data # <<>> THEN "active" ELSE "no_data",
                   intervals |-> Normalized(data),
                   operational_message |-> get_message(db, target),
                   last_updated |-> get_metadata(db),
                   total_hours_off |-> tenths]]

\* the strings the model sends as a date
Ymd(y, m, d) == y \o <<Chr.hyphen>> \o m \o <<Chr.hyphen>> \o d
D20260115 == Ymd(<<2, 0, 2, 6>>, <<0, 1>>, <<1, 5>>)
D20260116 == Ymd(<<2, 0, 2, 6>>, <<0, 1>>, <<1, 6>>)
D20240229 == Ymd(<<2, 0, 2, 4>>, <<0, 2>>, <<2, 9>>)
GoodDates == {D20260115, D20260116, D20240229}
\* 2025-02-29, 2026-04-31, 2026-13-01, 2026-00-10, 2026-01-00, 0000-01-01,
\* 2026-1-15, 15-01-2026, "invalid", "2026-01-15\n"
BadDates ==
    {Ymd(<<2, 0, 2, 5>>, <<0, 2>>, <<2, 9>>), Ymd(<<2, 0, 2, 6>>, <<0, 4>>, <<3, 1>>),
     Ymd(<<2, 0, 2, 6>>, <<1, 3>>, <<0, 1>>), Ymd(<<2, 0, 2, 6>>, <<0, 0>>, <<1, 0>>),
     Ymd(<<2, 0, 2, 6>>, <<0, 1>>, <<0, 0>>), Ymd(<<0, 0, 0, 0>>, <<0, 1>>, <<0, 1>>),
     Ymd(<<2, 0, 2, 6>>, <<1>>, <<1, 5>>), Ymd(<<1, 5>>, <<0, 1>>, <<2, 0, 2, 6>>),
     [i \in 1..7 |-> Chr.letter], D20260115 \o <<Chr.newline>>}
ApiDates == GoodDates \cup BadDates

\* the strings the model sends as a queue: the twelve names, 7.1, 1.3, 0.1,
\* "abc", "11", "1.1.1" and "1.1\n"
ApiQueues ==
    {SeededChars(i) : i \in 1..Len(SeededQueues)}
        \cup {<<7, Chr.dot, 1>>, <<1, Chr.dot, 3>>, <<0, Chr.dot, 1>>,
              <<Chr.letter, Chr.letter, Chr.letter>>, <<1, 1>>,
              <<1, Chr.dot, 1, Chr.dot, 1>>, <<1, Chr.dot, 1, Chr.newline>>}

\* GET /schedule/{queue}, with or without ?day= (lines 194-232); a day that
\* is absent or empty is falsy; today is what get_kyiv_date() returns
GetSchedule ==
    /\ api.pc \in {"idle", "responded"}
    /\ \E queue \in ApiQueues, day \in ApiDates \cup {None}, today \in GoodDates :
          LET target == IF day # None THEN day ELSE today
              data == get_schedule(db, NameOf(queue), target)
          IN  IF ~validate_queue(queue)
              THEN api' = Rejected("schedule", queue, day)
              ELSE \E tenths \in RoundTenths(total_minutes(HourRows(data))) :
                      api' = ScheduleResponse("schedule", queue, day, target, tenths)
    /\ UNCHANGED <<parser_vars, hrs, db, saves, svc>>

\* GET /schedule/{queue}/{day} (lines 235-254)
GetScheduleByDate ==
    /\ api.pc \in {"idle", "responded"}
    /\ \E queue \in ApiQueues, day \in ApiDates :
          LET data == get_schedule(db, NameOf(queue), day)
          IN  IF ~validate_queue(queue) \/ ~validate_date(day)
              THEN api' = Rejected("schedule_by_date", queue, day)
              ELSE \E tenths \in RoundTenths(total_minutes(HourRows(data))) :
                      api' = ScheduleResponse("schedule_by_date", queue, day, day, tenths)
    /\ UNCHANGED <<parser_vars, hrs, db, saves, svc>>

\* GET /all/{day} (lines 257-282): a path parameter is never empty
GetAllSchedules ==
    /\ api.pc \in {"idle", "responded"}
    /\ \E day \in ApiDates :
          LET all_schedules == get_all_schedules(db, day)
              Hours(q) == RoundTenths(total_minutes(HourRows(all_schedules[q])))
              tenths == UNION {Hours(q) : q \in DOMAIN all_schedules}
          IN  \E hours \in [DOMAIN all_schedules -> tenths] :
                 /\ \A q \in DOMAIN all_schedules : hours[q] \in Hours(q)
                 /\ api' = [pc |-> "responded", endpoint |-> "all", queue |-> None,
                            day |-> day, status_code |-> 200,
                            lookups |-> <<"get_all_schedules", "get_metadata", "get_message">>,
                            body |-> [date |-> day,
                                      last_updated |-> get_metadata(db),
                                      operational_message |-> get_message(db, day),
                                      queues |-> [q \in DOMAIN all_schedules |->
                                          [intervals |-> Normalized(all_schedules[q]),
                                           total_hours_off |-> hours[q]]]]]
    /\ UNCHANGED <<parser_vars, hrs, db, saves, svc>>

\* the database the endpoints read: two queues and a message saved for
\* 2026-01-15
ApiDb ==
    save_schedule(DbNew, D20260115,
                  [q \in {"1.1", "2.1"} |->
                      IF q = "1.1" THEN <<Base(N0900, N1000), Base(N0800, N0900)>>
                      ELSE <<Base(N0800, N1000)>>],
                  <<Word>>, 1).db

InitApi ==
    /\ api = [pc |-> "idle"]
    /\ db = ApiDb
    /\ saves = <<>>
    /\ block = <<>> /\ pc = "off" /\ queues = EmptyDict /\ processed = {}
    /\ result = NoResult /\ calls = <<>>
    /\ hrs = Off /\ svc = Off

NextApi == GetSchedule \/ GetScheduleByDate \/ GetAllSchedules

SpecApi == InitApi /\ [][NextApi]_vars

(***************************************************************************)
(* The update: OutageService.update of app/services/outage_service.py and  *)
(* the /update endpoint of main.py                                         *)
(*                                                                         *)
(* The service names its collaborators by older names:                     *)
(* parse_schedule_block is Parser.parse_block, extract_schedule_blocks is  *)
(* Scraper.extract_blocks, save_data(data, date) is the save of the        *)
(* storage (Database.save_schedule) for the date, without a message.       *)
(***************************************************************************)

\* the largest number of blocks of a page
MaxBlocks == 2

\* self.db.save_data(data, date)
save_data(dbs, data, date, now) == save_schedule(dbs, date, data, None, now)

\* "if start and end" (line 67)
BothTimes(interval) == Truthy(interval.start) /\ Truthy(interval.end)

\* OutageService._process_intervals (lines 52-77)
process_intervals(qs) ==
    LET kept == {q \in DOMAIN qs : SelectSeq(qs[q], BothTimes) # <<>>}
    IN  [q \in kept |-> SelectSeq(qs[q], BothTimes)]

\* what update returns: None or a list of dates
NoDates == [none |-> TRUE, dates |-> <<>>]
DateList(dates) == [none |-> FALSE, dates |-> dates]

\* "return saved_dates if saved_dates else None" (line 50)
ReturnValue(saved_dates) == IF saved_dates # <<>> THEN DateList(saved_dates) ELSE NoDates

\* update is called: nothing is fetched yet
UpdateCalled ==
    svc = [pc |-> "fetch", blocks |-> <<>>, i |-> 1, saved_dates |-> <<>>, out |-> NoDates]

\* blocks of a page: a queue with an interval, with two intervals and an
\* announcement, a marker without a time range, no marker at all, a queue
\* that is not seeded; for either date
On(b, date) == [b EXCEPT !.date = date]
PageBlocks ==
    {On(b, date) :
        b \in {Block("1.1", <<Range(T0800, T0900)>>, <<>>),
               Block("2.1", <<Range(T0800, T0900), Range(T1000, T1100)>>,
                     <<ExtraText(<<"1.1">>, T0900, T1000)>>),
               Block("1.1", <<>>, <<>>),
               Block("1.1", <<>>, <<NoQueueText>>),
               Block("7.1", <<Range(T0800, T0900)>>, <<>>)},
        date \in Dates}

\* fetch_page returns nothing (lines 16-18)
FetchFails ==
    /\ svc.pc = "fetch"
    /\ svc' = [svc EXCEPT !.pc = "returned", !.out = NoDates]
    /\ UNCHANGED <<parser_vars, hrs, api, db, saves>>

\* fetch_page returns a page and extract_schedule_blocks its blocks
\* (lines 16-34)
ExtractBlocks ==
    /\ svc.pc = "fetch"
    /\ \E n \in 0..MaxBlocks : \E blocks \in [1..n -> PageBlocks] :
          svc' = [svc EXCEPT !.pc = IF blocks = <<>> THEN "legacy" ELSE "loop",
                             !.blocks = blocks]
    /\ UNCHANGED <<parser_vars, hrs, api, db, saves>>

RECURSIVE SaveForDates(_, _, _, _)
\* "for d in target_dates: self.db.save_data(data, d)" (lines 30-31): the
\* database and the calls made
SaveForDates(st, data, target_dates, k) ==
    IF k > Len(target_dates) THEN st
    ELSE LET r == save_data(st.db, data, target_dates[k], Len(st.saves) + 1)
         IN  SaveForDates([db |-> r.db,
                           saves |-> Append(st.saves,
                               [date |-> target_dates[k], schedules |-> data,
                                message |-> None, raised |-> r.raised])],
                          data, target_dates, k + 1)

\* no blocks: the older way (lines 23-32); target_dates and data are what
\* extract_dates and parse_content make of the page
UpdateLegacy ==
    /\ svc.pc = "legacy"
    /\ \E n \in 0..1 : \E target_dates \in [1..n -> Dates] :
       \E data \in {EmptyDict, [q \in {"1.1"} |-> <<Base(N0800, N0900)>>]} :
          IF target_dates = <<>>
          THEN /\ svc' = [svc EXCEPT !.pc = "returned", !.out = NoDates]
               /\ UNCHANGED <<db, saves>>
          ELSE LET st == SaveForDates([db |-> db, saves |-> saves], data, target_dates, 1)
               IN  /\ svc' = [svc EXCEPT !.pc = "returned", !.out = DateList(target_dates)]
                   /\ db' = st.db
                   /\ saves' = st.saves
    /\ UNCHANGED <<parser_vars, hrs, api>>

\* one block of the loop (lines 36-48); an exception of save_data leaves
\* update
UpdateBlock ==
    /\ svc.pc = "loop"
    /\ svc.i <= Len(svc.blocks)
    /\ LET parsed == parse_block(svc.blocks[svc.i])
           data == process_intervals(parsed.queues)
           r == save_data(db, data, parsed.date, Len(saves) + 1)
       IN  IF parsed.queues # EmptyDict /\ data # EmptyDict
           THEN /\ db' = r.db
                /\ saves' = Append(saves, [date |-> parsed.date, schedules |-> data,
                                           message |-> None, raised |-> r.raised])
                /\ svc' = IF r.raised
                          THEN [svc EXCEPT !.pc = "raised"]
                          ELSE [svc EXCEPT !.saved_dates = Append(@, parsed.date),
                                           !.i = @ + 1]
           ELSE /\ svc' = [svc EXCEPT !.i = @ + 1]
                /\ UNCHANGED <<db, saves>>
    /\ UNCHANGED <<parser_vars, hrs, api>>

\* the end of the loop (line 50)
UpdateReturn ==
    /\ svc.pc = "loop"
    /\ svc.i > Len(svc.blocks)
    /\ svc' = [svc EXCEPT !.pc = "returned", !.out = ReturnValue(svc.saved_dates)]
    /\ UNCHANGED <<parser_vars, hrs, api, db, saves>>

\* update_data (main.py lines 179-191): a result that is None or empty, and
\* an exception, are answered with the status error
UpdateData ==
    /\ svc.pc \in {"returned", "raised"}
    /\ api.pc = "idle"
    /\ api' = IF svc.pc = "returned" /\ ~svc.out.none /\ svc.out.dates # <<>>
              THEN [pc |-> "responded", endpoint |-> "update", status |-> "success",
                    dates |-> svc.out.dates, last_updated |-> get_metadata(db)]
              ELSE [pc |-> "responded", endpoint |-> "update", status |-> "error",
                    dates |-> <<>>, last_updated |-> None]
    /\ UNCHANGED <<parser_vars, hrs, db, saves, svc>>

\* the database before the update: new, or with two queues and a message
\* stored for 2026-01-15
StoredBefore ==
    {DbNew,
     save_schedule(DbNew, "2026-01-15",
                   [q \in {"1.1", "3.1"} |-> <<Base(N0900, N1000)>>], <<Word>>, 0).db}

InitUpdate ==
    /\ UpdateCalled
    /\ db \in StoredBefore
    /\ saves = <<>>
    /\ api = [pc |-> "idle"]
    /\ block = <<>> /\ pc = "off" /\ queues = EmptyDict /\ processed = {}
    /\ result = NoResult /\ calls = <<>>
    /\ hrs = Off

NextUpdate ==
    FetchFails \/ ExtractBlocks \/ UpdateLegacy \/ UpdateBlock \/ UpdateReturn \/ UpdateData

SpecUpdate == InitUpdate /\ [][NextUpdate]_vars

(***************************************************************************)
(* Concurrent requests.  The endpoints are plain functions, which the      *)
(* server runs on worker threads: calls of save_schedule and the lookups   *)
(* of a schedule request interleave.  Every operation of Database opens a  *)
(* connection of its own (_connect, lines 38-42).  save_schedule is one    *)
(* transaction on its connection, from the first DELETE (line 107) to      *)
(* commit (line 132); a lookup is one SELECT on its connection.            *)
(*   db    the committed database                                          *)
(*   svc   the calls of save_schedule, one per writer: where the call is,  *)
(*         its arguments and "work", the database as its connection sees it*)
(*   api   the schedule request being served: the lookups left to do and   *)
(*         the fields of the response read so far                          *)
(*   saves the calls of save_schedule that have finished, in the order in  *)
(*         which they committed or raised                                  *)
(***************************************************************************)

\* the largest number of calls of save_schedule
MaxWriters == 2

Writers == 1..MaxWriters

\* the date of the calls and of the requests
SameDate == "2026-01-15"

\* the arguments of the calls: two schedules that can be stored, one with an
\* interval that cannot; no message or a message
ConcSchedules ==
    {[q \in {"1.1"} |-> <<Base(N0800, N0900)>>],
     [q \in {"1.1", "2.1"} |-> <<Base(N0900, N1000)>>],
     [q \in {"1.1"} |-> <<Base(N0800, N0900), Interval(N0900, None, "base")>>]}
ConcMessages == {None, <<Word>>}

\* the database before the calls: a schedule and a message stored for the date
ConcDb ==
    save_schedule(DbNew, SameDate, [q \in {"2.1"} |-> <<Base(N0800, N1000)>>],
                  <<Word, Ws, Word>>, 0).db

NoCall == [pc |-> "idle", date |-> "", schedules |-> EmptyDict, message |-> None,
           work |-> DbNew]
Finished == [NoCall EXCEPT !.pc = "done"]

\* a writer is inside its transaction: it holds the write lock of the file
InTransaction(w) == svc[w].pc \in {"deleted", "inserted"}

\* the database as the connection of the writing transaction sees it, the
\* committed one when there is none
Working ==
    IF \E w \in Writers : InTransaction(w)
    THEN svc[CHOOSE w \in Writers : InTransaction(w)].work
    ELSE db

\* a lookup on the connection of the writing transaction
VisibleShared(committed, working) == working

\* a lookup on a connection of its own (lines 38-42) sees what is committed
Visible(committed, working) == committed

\* the two DELETE statements (lines 107-108)
AfterDeletes(dbs, date) ==
    [schedules |-> DeleteDate(dbs.schedules, date),
     daily_messages |-> DeleteMessages(dbs.daily_messages, date),
     last_updated |-> dbs.last_updated]

FinishedCall(call, raised, now) ==
    [date |-> call.date, schedules |-> call.schedules, message |-> call.message,
     raised |-> raised, now |-> now]

\* save_schedule, lines 105-108: the connection, and the DELETE statements,
\* which start the transaction and take the write lock
SaveBegin ==
    /\ \E w \in Writers :
          /\ svc[w].pc = "idle"
          /\ \A v \in Writers : ~InTransaction(v)
          /\ \E schedules \in ConcSchedules, message \in ConcMessages :
                svc' = [svc EXCEPT ![w] = [pc |-> "deleted", date |-> SameDate,
                                           schedules |-> schedules, message |-> message,
                                           work |-> AfterDeletes(db, SameDate)]]
    /\ UNCHANGED <<parser_vars, hrs, api, db, saves>>

\* save_schedule, line 107, while another transaction holds the write lock
\* for longer than the timeout of the connection: "database is locked" is
\* raised and nothing was written
SaveBusy ==
    /\ \E w \in Writers :
          /\ svc[w].pc = "idle"
          /\ \E v \in Writers : InTransaction(v)
          /\ \E schedules \in ConcSchedules, message \in ConcMessages :
                saves' = Append(saves, FinishedCall([date |-> SameDate,
                                                     schedules |-> schedules,
                                                     message |-> message], TRUE, 0))
          /\ svc' = [svc EXCEPT ![w] = Finished]
    /\ UNCHANGED <<parser_vars, hrs, api, db>>

\* save_schedule, lines 111-131: the INSERT statements; one that fails
\* raises, and the transaction is rolled back as the with block is left
SaveInsert ==
    /\ \E w \in Writers :
          /\ svc[w].pc = "deleted"
          /\ LET r == save_schedule(db, svc[w].date, svc[w].schedules, svc[w].message,
                                    Len(saves) + 1)
             IN  IF r.raised
                 THEN /\ svc' = [svc EXCEPT ![w] = Finished]
                      /\ saves' = Append(saves, FinishedCall(svc[w], TRUE, 0))
                 ELSE /\ svc' = [svc EXCEPT ![w].pc = "inserted", ![w].work = r.db]
                      /\ saves' = saves
    /\ UNCHANGED <<parser_vars, hrs, api, db>>

\* save_schedule, line 132: commit
SaveCommit ==
    /\ \E w \in Writers :
          /\ svc[w].pc = "inserted"
          /\ db' = svc[w].work
          /\ saves' = Append(saves, FinishedCall(svc[w], FALSE, svc[w].work.last_updated))
          /\ svc' = [svc EXCEPT ![w] = Finished]
    /\ UNCHANGED <<parser_vars, hrs, api>>

\* the lookups of a request, in the order of the handler: get_schedule_by_date
\* (lines 243, 251, 252) and get_all_schedules (lines 267, 279, 280)
Lookups(endpoint) ==
    IF endpoint = "all" THEN <<"get_all_schedules", "get_metadata", "get_message">>
    ELSE <<"get_schedule", "get_message", "get_metadata">>

ConcQueues == {"1.1", "2.1"}

NoRequest == [pc |-> "idle", endpoint |-> "", queue |-> "", day |-> "", left |-> <<>>,
              intervals |-> <<>>, operational_message |-> None, last_updated |-> 0]

\* the request after one more lookup
Looked(request) ==
    [request EXCEPT !.left = Tail(request.left),
                    !.pc = IF Tail(request.left) = <<>> THEN "responded" ELSE "reading"]

\* a request arrives and its handler makes its first lookup: db.get_schedule
\* (main.py line 243) or db.get_all_schedules (line 267)
ReadIntervals ==
    /\ api.pc \in {"idle", "responded"}
    /\ \E endpoint \in {"schedule_by_date", "all"}, queue \in ConcQueues :
          LET seen == Visible(db, Working)
              request == [NoRequest EXCEPT !.endpoint = endpoint,
                                           !.queue = IF endpoint = "all" THEN "" ELSE queue,
                                           !.day = SameDate,
                                           !.left = Lookups(endpoint)]
          IN  api' = Looked([request EXCEPT !.intervals =
                                IF endpoint = "all" THEN get_all_schedules(seen, SameDate)
                                ELSE get_schedule(seen, queue, SameDate)])
    /\ UNCHANGED <<parser_vars, hrs, db, saves, svc>>

\* db.get_message (main.py lines 251, 280)
ReadMessage ==
    /\ api.pc = "reading"
    /\ Head(api.left) = "get_message"
    /\ api' = Looked([api EXCEPT !.operational_message =
                                    get_message(Visible(db, Working), api.day)])
    /\ UNCHANGED <<parser_vars, hrs, db, saves, svc>>

\* db.get_metadata("last_updated") (main.py lines 252, 279)
ReadMetadata ==
    /\ api.pc = "reading"
    /\ Head(api.left) = "get_metadata"
    /\ api' = Looked([api EXCEPT !.last_updated = get_metadata(Visible(db, Working))])
    /\ UNCHANGED <<parser_vars, hrs, db, saves, svc>>

InitConc ==
    /\ db = ConcDb
    /\ saves = <<>>
    /\ svc = [w \in Writers |-> NoCall]
    /\ api = NoRequest
    /\ block = <<>> /\ pc = "off" /\ queues = EmptyDict /\ processed = {}
    /\ result = NoResult /\ calls = <<>>
    /\ hrs = Off

NextConc ==
    SaveBegin \/ SaveBusy \/ SaveInsert \/ SaveCommit
        \/ ReadIntervals \/ ReadMessage \/ ReadMetadata

SpecConc == InitConc /\ [][NextConc]_vars

(***************************************************************************)
(* Vocabulary of the properties                                            *)
(***************************************************************************)

\* the final intervals of queue q in the result; <<>> when q is left out
Final(q) == IF q \in DOMAIN result.queues THEN result.queues[q] ELSE <<>>

\* the raw collection of queue q handed to reconciliation
Raw(q) == IF q \in DOMAIN queues THEN queues[q] ELSE <<>>

\* minute m of the day lies in the interval; an interval whose end is earlier
\* than its start runs from its start to 24:00 and from 00:00 to its end
InInterval(iv, m) ==
    LET s == to_minutes(iv.start)
        e == to_minutes(iv.end)
    IN  IF e < s THEN m >= s \/ m < e ELSE s <= m /\ m < e

\* the minutes at which coverage can change
Points(ivs) ==
    {0} \cup {to_minutes(ivs[i].start) : i \in 1..Len(ivs)}
        \cup {to_minutes(ivs[i].end) : i \in 1..Len(ivs)}

\* every minute of iv lies in some interval of ivs
Covers(ivs, iv) ==
    \A m \in Points(Append(ivs, iv)) :
        InInterval(iv, m) => \E i \in 1..Len(ivs) : InInterval(ivs[i], m)

HasTimes(iv) == Truthy(iv.start) /\ Truthy(iv.end)
IsOvernight(iv) == HasTimes(iv) /\ to_minutes(iv.end) < to_minutes(iv.start)
NoShifts(raw) == SelectSeq(raw, IsShift) = <<>>

\* the literal half-open test of the specification
Disjoint(a, b) ==
    to_minutes(a.end) <= to_minutes(b.start) \/ to_minutes(b.end) <= to_minutes(a.start)

(***************************************************************************)
(* C1                                                                      *)
(***************************************************************************)

\* C1: in the result of parse_block any two distinct intervals of one queue
\* fail the half-open overlap test on their minutes since midnight.
C1_NoOverlap ==
    pc = "done" =>
        \A q \in DOMAIN result.queues :
            \A i, j \in 1..Len(result.queues[q]) :
                i # j => Disjoint(result.queues[q][i], result.queues[q][j])

\* a queue whose raw collection holds two overlapping intervals was reconciled
C1_Witness ==
    /\ pc = "done"
    /\ \E q \in DOMAIN queues :
          /\ \E i, j \in 1..Len(queues[q]) :
                /\ i # j
                /\ HasTimes(queues[q][i]) /\ HasTimes(queues[q][j])
                /\ ~Disjoint(queues[q][i], queues[q][j])
          /\ q \in DOMAIN result.queues

(***************************************************************************)
(* C2                                                                      *)
(***************************************************************************)

\* C2: the intervals of each queue of the result are strictly ascending by
\* start time: no two of them have the same start, overnight intervals in the
\* raw collection included.
C2_StrictlyAscending ==
    pc = "done" =>
        \A q \in DOMAIN result.queues :
            \A i, j \in 1..Len(result.queues[q]) :
                i < j => to_minutes(result.queues[q][i].start)
                            < to_minutes(result.queues[q][j].start)

(***************************************************************************)
(* C3                                                                      *)
(***************************************************************************)

\* C3: an overnight interval (end earlier than start) of a queue's raw
\* collection is never lost: the final intervals of the queue cover the
\* minutes from its start to 24:00 and from 00:00 to its end, whatever other
\* intervals the queue has.  (Stated for raw collections without start or end
\* shifts, which move an interval on purpose.)
C3_OvernightPreserved ==
    pc = "done" =>
        \A q \in DOMAIN queues :
            NoShifts(queues[q]) =>
                \A i \in 1..Len(queues[q]) :
                    IsOvernight(queues[q][i]) => Covers(Final(q), queues[q][i])

(***************************************************************************)
(* C4                                                                      *)
(***************************************************************************)

OnlyShifts(raw) == raw # <<>> /\ \A i \in 1..Len(raw) : IsShift(raw[i])

\* C4: every queue of the result has a non-empty interval sequence whose
\* intervals are all of kind base with start and end present; a queue whose
\* raw collection holds only unresolved start or end shifts is absent.
C4_OnlyRealizedIntervals ==
    pc = "done" =>
        /\ \A q \in DOMAIN result.queues :
              /\ result.queues[q] # <<>>
              /\ \A i \in 1..Len(result.queues[q]) :
                    /\ result.queues[q][i].type = "base"
                    /\ result.queues[q][i].start # None
                    /\ result.queues[q][i].end # None
        /\ \A q \in DOMAIN queues :
              OnlyShifts(queues[q]) => q \notin DOMAIN result.queues

\* a queue with nothing but a shift went through reconciliation
C4_Witness ==
    /\ pc = "done"
    /\ \E q \in DOMAIN queues : OnlyShifts(queues[q]) /\ q \notin DOMAIN result.queues

(***************************************************************************)
(* C5                                                                      *)
(***************************************************************************)

MinuteMin(a, b) == IF to_minutes(b) < to_minutes(a) THEN b ELSE a
MinuteMax(a, b) == IF to_minutes(b) > to_minutes(a) THEN b ELSE a

\* the raw collection is base intervals and exactly one full replacement
BasesAndOneFull(raw) ==
    /\ Len(SelectSeq(raw, IsFull)) = 1
    /\ Len(SelectSeq(raw, IsBase)) + 1 = Len(raw)

\* the base intervals (sorted by start) that overlap f, by their index
Overlapping(B, f) == {i \in 1..Len(B) : ~Disjoint(B[i], f)}

\* B with the first base interval that overlaps f widened to the union, or
\* with f added as an interval of its own when none overlaps
WithFull(B, f) ==
    IF Overlapping(B, f) = {}
    THEN Append(B, Interval(f.start, f.end, "base"))
    ELSE LET i == CHOOSE k \in Overlapping(B, f) : \A m \in Overlapping(B, f) : k <= m
         IN  [B EXCEPT ![i] = Interval(MinuteMin(B[i].start, f.start),
                                       MinuteMax(B[i].end, f.end), "base")]

Entries ==
    LET es == SplitEntries(ReplaceDashes(block.extras_text), 1, <<>>)
    IN  [i \in 1..Len(es) |-> Strip(es[i])]

\* entry i of extras_text names queue q
Names(i, q) == \E n \in 1..Len(QueueNums(Entries[i])) : QueueNums(Entries[i])[n] = q

\* the entries of the given kind that name queue q
Announced(kind, q) ==
    {i \in 1..Len(Entries) : EntryKind(Entries[i]) = kind /\ Names(i, q)}

\* C6: every supplementary announcement of a queue is applied, repeated ones
\* too: the raw collection holds one supplementary interval per announcement,
\* and the final intervals of the queue cover each of them, as an interval of
\* its own or coalesced into the covering interval.
C6_SupplementaryApplied ==
    pc = "done" =>
        \A q \in DOMAIN queues :
            /\ Len(SelectSeq(queues[q], IsExtra)) = Cardinality(Announced("extra", q))
            /\ \A i \in 1..Len(queues[q]) :
                  IsExtra(queues[q][i]) => Covers(Final(q), queues[q][i])

(***************************************************************************)
(* C7                                                                      *)
(***************************************************************************)

IsStartShift(iv) == iv.type = "change_start"
IsEndShift(iv) == iv.type = "change_end"

Least(S) == CHOOSE i \in S : \A j \in S : i <= j

\* the time of the start shift (end shift) that entry i announces
StartTimeOf(i) == normalize_time(Entries[i][Pattern2(Entries[i])].t)
EndTimeOf(i) == normalize_time(Entries[i][Pattern3(Entries[i])].t)

\* C7: per queue at most one start shift and at most one end shift are
\* recorded, the first of each kind in source order; later ones are dropped.
\* The two kinds are deduplicated independently: the first end shift is
\* recorded whatever start shifts came before it, and the first start shift
\* is recorded whatever end shifts came before it (only a full replacement
\* recorded earlier for the queue suppresses it).
C7_FirstShiftWins ==
    pc \in {"merge", "done"} =>
        \A q \in {"1.1", "1.2"} :
            LET cs == SelectSeq(Raw(q), IsStartShift)
                ce == SelectSeq(Raw(q), IsEndShift)
                sa == Announced("start", q)
                ea == Announced("end", q)
                fa == Announced("full", q)
            IN  /\ Len(cs) <= 1
                /\ Len(ce) <= 1
                /\ Len(cs) = 1 => sa # {} /\ cs[1].start = StartTimeOf(Least(sa))
                /\ (sa # {} /\ \A f \in fa : f > Least(sa)) => Len(cs) = 1
                /\ Len(ce) = 1 => ea # {} /\ ce[1].end = EndTimeOf(Least(ea))
                /\ ea # {} => Len(ce) = 1

\* two start shifts with different times and an end shift between them were
\* announced for one queue
C7_Witness ==
    /\ pc = "done"
    /\ \E q \in DOMAIN queues :
          /\ Cardinality(Announced("start", q)) >= 2
          /\ \E i, j \in Announced("start", q) : StartTimeOf(i) # StartTimeOf(j)
          /\ \E e \in Announced("end", q) : e > Least(Announced("start", q))
          /\ Len(SelectSeq(queues[q], IsStartShift)) = 1
          /\ Len(SelectSeq(queues[q], IsEndShift)) = 1

(***************************************************************************)
(* C8                                                                      *)
(***************************************************************************)

\* the raw collection is base intervals and shifts only
BasesAndShifts(raw) ==
    Len(SelectSeq(raw, IsBase)) + Len(SelectSeq(raw, IsShift)) = Len(raw)

\* the lowest index among the intervals of B whose field is nearest to T
Nearest(B, T, field) ==
    Least({i \in 1..Len(B) :
              \A j \in 1..Len(B) :
                  Abs(to_minutes(B[i][field]) - to_minutes(T))
                      <= Abs(to_minutes(B[j][field]) - to_minutes(T))})

\* B with the start nearest to the start shift overwritten, and the end
\* nearest to the end shift overwritten; B is not empty
Shifted(B, cs, ce) ==
    LET B1 == IF cs = <<>> THEN B
              ELSE [B EXCEPT ![Nearest(B, cs[1].start, "start")].start = cs[1].start]
    IN  IF ce = <<>> THEN B1
        ELSE [B1 EXCEPT ![Nearest(B, ce[1].end, "end")].end = ce[1].end]

\* C8: with at least one base interval, a start shift to T overwrites the
\* start of the base interval (in start-sorted order) whose start is nearest
\* to T in minutes, the lowest index winning a tie, and changes nothing else;
\* an end shift does the same with the ends.  Without a base interval the
\* shift is dropped.
C8_NearestShift ==
    pc = "done" =>
        \A q \in DOMAIN queues :
            BasesAndShifts(queues[q]) =>
                LET B == SortByStart(SelectSeq(queues[q], IsBase))
                    cs == SelectSeq(queues[q], IsStartShift)
                    ce == SelectSeq(queues[q], IsEndShift)
                IN  IF B = <<>> THEN Final(q) = <<>>
                    ELSE /\ ShiftLoop(B, SelectSeq(queues[q], IsShift)) = Shifted(B, cs, ce)
                         /\ Final(q) = Retag(merge_overlapping(Shifted(B, cs, ce)))

\* two base intervals are equally near to the start shift, and the final
\* intervals show that the first one was moved
C8_Witness ==
    /\ pc = "done"
    /\ \E q \in DOMAIN queues :
          /\ BasesAndShifts(queues[q])
          /\ LET B == SortByStart(SelectSeq(queues[q], IsBase))
                 cs == SelectSeq(queues[q], IsStartShift)
             IN  /\ Len(B) = 2
                 /\ Len(cs) = 1
                 /\ Abs(to_minutes(B[1].start) - to_minutes(cs[1].start))
                       = Abs(to_minutes(B[2].start) - to_minutes(cs[1].start))
                 /\ B[1].start # cs[1].start
                 /\ Final(q) = Retag(merge_overlapping([B EXCEPT ![1].start = cs[1].start]))
                 /\ Final(q) # Retag(merge_overlapping([B EXCEPT ![2].start = cs[1].start]))

(***************************************************************************)
(* C9                                                                      *)
(***************************************************************************)

IsPhrase(tok) == tok.k \in {"ranishe", "tryv_do", "tryv_dovshe", "dodatkovo"}

\* extras_text is not empty and holds no announcement phrase
Unrecognised(text) == text # <<>> /\ SelectSeq(text, IsPhrase) = <<>>

C10_Idempotent ==
    pc = "done" =>
        /\ \A q \in DOMAIN queues :
              LET L == Combined(queues[q])
              IN  merge_overlapping(merge_overlapping(L)) = merge_overlapping(L)
        /\ merge_intervals(result.queues) = result.queues

(***************************************************************************)
(* C11                                                                     *)
(***************************************************************************)

\* a normalised time is a wall-clock time: hour 0..23 and minute 0..59
InRange(t) ==
    /\ Len(t) = 4
    /\ t[1] * 10 + t[2] \in 0..23
    /\ t[3] * 10 + t[4] \in 0..59

\* C11: every start and end of the result of parse_block is a two-digit
\* zero-padded HH:MM value with hour in 0..23 and minute in 0..59; a mention
\* whose time lies outside that range contributes no interval.
C11_TimesInRange ==
    pc = "done" =>
        \A q \in DOMAIN result.queues :
            \A i \in 1..Len(result.queues[q]) :
                InRange(result.queues[q][i].start) /\ InRange(result.queues[q][i].end)

(***************************************************************************)
(* C12                                                                     *)
(***************************************************************************)

\* the 12 queue identifiers: group 1..6, subgroup 1..2
QueueIds ==
    {"1.1", "1.2", "2.1", "2.2", "3.1", "3.2", "4.1", "4.2", "5.1", "5.2", "6.1", "6.2"}

\* C12: every key of the queues mapping returned by parse_block is one of
\* the 12 valid queue identifiers; a dotted pair outside that grammar in
\* schedule_text or extras_text never becomes a queue of the result.
C12_OnlyValidQueues ==
    pc = "done" => DOMAIN result.queues \subseteq QueueIds

(***************************************************************************)
(* C13, C14                                                                *)
(***************************************************************************)

\* a two-digit zero-padded HH:MM time with hour 0..23 and minute 0..59
ValidHM(str) ==
    /\ str # None
    /\ Len(str) = 2
    /\ Len(str[1]) = 2 /\ IsDigits(str[1]) /\ str[1][1] * 10 + str[1][2] \in 0..23
    /\ Len(str[2]) = 2 /\ IsDigits(str[2]) /\ str[2][1] * 10 + str[2][2] \in 0..59

\* the start and the end of an item, whichever keys it uses
StartOf(item) == IF item.start_time # None THEN item.start_time ELSE item.start
EndOf(item) == IF item.end_time # None THEN item.end_time ELSE item.end

\* an interval with a valid start and a valid end
WellFormed(item) == item.dict /\ ValidHM(StartOf(item)) /\ ValidHM(EndOf(item))

Minutes(str) == (str[1][1] * 10 + str[1][2]) * 60 + str[2][1] * 10 + str[2][2]

\* the duration of the claim: an interval crosses midnight only when its end
\* is earlier than its start
Duration(item) ==
    IF Minutes(EndOf(item)) < Minutes(StartOf(item))
    THEN 1440 - Minutes(StartOf(item)) + Minutes(EndOf(item))
    ELSE Minutes(EndOf(item)) - Minutes(StartOf(item))

RECURSIVE SumDurations(_)
SumDurations(items) ==
    IF items = <<>> THEN 0 ELSE Duration(Head(items)) + SumDurations(Tail(items))

\* C13: for a list of well-formed intervals calculate_hours returns the sum
\* of the durations in minutes divided by 60 and rounded to one decimal,
\* where an interval counts (1440 - start) + end minutes only when its end
\* is earlier than its start and end - start minutes otherwise: an interval
\* whose start equals its end counts 0.
C13_HoursSum ==
    (hrs.pc = "done" /\ \A i \in 1..Len(hrs.intervals) : WellFormed(hrs.intervals[i])) =>
        hrs.out \in RoundTenths(SumDurations(hrs.intervals))

\* C14: calculate_hours never raises: an interval whose start or end is
\* absent or no valid HH:MM time is left out of the sum, and the result is
\* that of the list without the malformed intervals.
C14_MalformedExcluded ==
    /\ hrs.pc # "raised"
    /\ hrs.pc = "done" =>
          /\ hrs.total_minutes = total_minutes(SelectSeq(hrs.intervals, WellFormed))
          /\ hrs.out \in RoundTenths(total_minutes(SelectSeq(hrs.intervals, WellFormed)))

\* a list with a missing start in its first interval and a well-formed
\* second interval was summed
C14_Witness ==
    /\ hrs.pc = "done"
    /\ Len(hrs.intervals) = 2
    /\ hrs.intervals[1].dict /\ StartOf(hrs.intervals[1]) = None
    /\ WellFormed(hrs.intervals[2])
    /\ hrs.out = 50

(***************************************************************************)
(* C16                                                                     *)
(***************************************************************************)

\* the last call of save_schedule for the date that returned; 0 without one
LastSave(d) ==
    LET done == {i \in 1..Len(saves) : saves[i].date = d /\ ~saves[i].raised}
    IN  IF done = {} THEN 0 ELSE CHOOSE i \in done : \A j \in done : j <= i

\* how often x occurs in the sequence
Count(seq, x) == Cardinality({i \in 1..Len(seq) : seq[i] = x})

\* the rows a query returned are the intervals, each as often as it is given
SameIntervals(rows, intervals) ==
    /\ Len(rows) = Len(intervals)
    /\ \A i \in 1..Len(intervals) :
          Count(rows, [start_time |-> intervals[i].start, end_time |-> intervals[i].end,
                       type |-> intervals[i].type])
              = Count(intervals, intervals[i])

\* C16: after any sequence of save_schedule calls the data stored for a date
\* is that of the last call for the date that returned: get_all_schedules
\* gives the intervals of its schedules and nothing of earlier calls,
\* get_message its trimmed message, or None when that message is empty or
\* blank; a date never saved has no data, so a call changes nothing of the
\* other dates.
C16_LastSaveWins ==
    \A d \in Dates :
        IF LastSave(d) = 0
        THEN get_all_schedules(db, d) = EmptyDict /\ get_message(db, d) = None
        ELSE LET sv == saves[LastSave(d)]
                 got == get_all_schedules(db, d)
             IN  /\ DOMAIN got = {q \in DOMAIN sv.schedules : sv.schedules[q] # <<>>}
                 /\ \A q \in DOMAIN got : SameIntervals(got[q], sv.schedules[q])
                 /\ get_message(db, d) = Strip(sv.message)

\* a date saved with intervals of two queues and a message was saved again
\* with other intervals and a blank message
C16_Witness ==
    /\ Len(saves) = 2
    /\ saves[1].date = saves[2].date
    /\ ~saves[1].raised /\ ~saves[2].raised
    /\ Strip(saves[1].message) # <<>> /\ saves[2].message = <<Ws>>
    /\ DOMAIN saves[1].schedules = {"1.1", "2.1"}
    /\ DOMAIN saves[2].schedules = {"1.1"}
    /\ get_message(db, saves[2].date) = None

\* a real calendar date written YYYY-MM-DD: ten characters, a year from 0001,
\* a month 01..12 and a day the month has
RealDate(s) ==
    /\ Len(s) = 10
    /\ \A i \in 1..10 : IF i \in {5, 8} THEN s[i] = Chr.hyphen ELSE IsDigit(s[i])
    /\ s[1] * 1000 + s[2] * 100 + s[3] * 10 + s[4] >= 1
    /\ s[6] * 10 + s[7] \in 1..12
    /\ s[9] * 10 + s[10] \in 1..DaysIn(s[1] * 1000 + s[2] * 100 + s[3] * 10 + s[4],
                                       s[6] * 10 + s[7])

\* the request of the last response carries only valid parameters: its queue,
\* if it has one, is one of the twelve names and its date, if it has one, a
\* real date
ValidRequest ==
    /\ api.queue # None => \E i \in 1..Len(SeededQueues) : api.queue = SeededChars(i)
    /\ api.day # None => RealDate(api.day)

\* C15: on the three endpoints a request with a queue that is none of the
\* twelve names or a date that is no real calendar date is answered with 400
\* and without a read of the storage, and every request with valid
\* parameters with 200.
C15_ValidatedBeforeStorage ==
    api.pc = "responded" =>
        IF ValidRequest THEN api.status_code = 200
        ELSE api.status_code = 400 /\ api.lookups = <<>>


RECURSIVE Productive(_)
\* the dates of the blocks whose parse yields at least one queue, in the
\* order of the blocks
Productive(blocks) ==
    IF blocks = <<>> THEN <<>>
    ELSE (IF parse_block(Head(blocks)).queues # EmptyDict
          THEN <<Head(blocks).date>> ELSE <<>>)
         \o Productive(Tail(blocks))

\* the dates of the writes to the storage, in the order they were made
WrittenDates == [k \in 1..Len(saves) |-> saves[k].date]

SameAsAlone ==
    /\ \A i \in 1..Len(calls) : calls[i].result = parse_block(calls[i].block)
    /\ \A i, j \in 1..Len(calls) :
          calls[i].block = calls[j].block => calls[i].result = calls[j].result

\* C18: in any sequence of calls on one Parser the result for a block is the
\* result of parsing that block alone, whatever the earlier calls recorded in
\* their sets of processed announcements, and no step of a call changes the
\* block.
C18_NoStateBetweenCalls == []SameAsAlone /\ [][pc # "done" => block' = block]_vars

\* a start shift for 1.1 is applied in the first call and again in the third
\* call on the same block, after a call on another block
C18_Witness ==
    /\ Len(calls) = 3
    /\ calls[1].block = Block("1.1", <<Range(T0900, T1000)>>, <<StartText(<<"1.1">>, T0800)>>)
    /\ calls[2].block = Block("1.1", <<Range(T0900, T1000)>>, <<FullText(<<"1.1">>, T0800, T1100)>>)
    /\ calls[3].block = calls[1].block
    /\ calls[3].result.queues["1.1"] = <<Base(N0800, N1000)>>


\* the kinds in the order of their priority, the kinds whose pattern matches
\* the entry, and the one of them with the highest priority ("none" when no
\* pattern matches)
Priority == <<"full", "start", "end", "extra">>
PatternMatches(kind, entry) ==
    IF kind = "full" THEN Pattern1(entry) # <<>>
    ELSE IF kind = "start" THEN Pattern2(entry) # 0
    ELSE IF kind = "end" THEN Pattern3(entry) # 0
    ELSE Pattern4(entry) # <<>>
Matched(entry) == {k \in {"full", "start", "end", "extra"} : PatternMatches(k, entry)}
Highest(entry) ==
    IF Matched(entry) = {} THEN "none"
    ELSE Priority[Least({n \in 1..4 : Priority[n] \in Matched(entry)})]

\* the interval that an entry announces by the kind of its highest priority
Emitted(e) ==
    IF Highest(e) = "full"
    THEN Interval(normalize_time(e[Pattern1(e)[1]].t),
                  normalize_time(e[Pattern1(e)[2]].t), "change")
    ELSE IF Highest(e) = "start"
    THEN Interval(normalize_time(e[Pattern2(e)].t), None, "change_start")
    ELSE IF Highest(e) = "end"
    THEN Interval(None, normalize_time(e[Pattern3(e)].t), "change_end")
    ELSE Interval(normalize_time(e[Pattern4(e)[2]].s),
                  normalize_time(e[Pattern4(e)[2]].e), "extra")
EmittedBy(i) == Emitted(Entries[i])

\* the entry names queue q
NamesQueue(e, q) == \E n \in 1..Len(QueueNums(e)) : QueueNums(e)[n] = q

IsBaseType(iv) == iv.type = "base"
IsChangeType(iv) == iv.type # "base"

\* the base intervals that the base table gives queue q
BaseOf(q) ==
    IF q \in DOMAIN base_schedule(block.schedule_text)
    THEN base_schedule(block.schedule_text)[q] ELSE <<>>

\* C19: after the entries are applied, the change intervals of every queue
\* come from entries that name the queue, each entry giving at most one of
\* them, of the highest-priority kind among the patterns the entry matches
\* and no other, in the order of the entries; the base intervals are those
\* of the base table, so an entry that matches no pattern or names no queue
\* adds nothing.
C19_FirstPatternWins ==
    pc \in {"merge", "done"} =>
        LET es == Entries
        IN  \A q \in DOMAIN queues :
                LET changes == SelectSeq(queues[q], IsChangeType)
                IN  /\ SelectSeq(queues[q], IsBaseType) = BaseOf(q)
                    /\ \E f \in [1..Len(changes) -> 1..Len(es)] :
                          /\ \A k \in 1..Len(changes) :
                                /\ NamesQueue(es[f[k]], q)
                                /\ Highest(es[f[k]]) # "none"
                                /\ changes[k] = Emitted(es[f[k]])
                          /\ \A k, l \in 1..Len(changes) : k < l => f[k] < f[l]

\* after the empty text before the first dash, a start shift for 1.1, then
\* an entry for 1.1 that matches the start-shift and the end-shift pattern:
\* the last entry records nothing, no end shift either
C19_Witness ==
    /\ pc = "done"
    /\ block.extras_text # <<>>
    /\ Len(Entries) = 3
    /\ Entries[1] = <<>>
    /\ Matched(Entries[2]) = {"start"}
    /\ Matched(Entries[3]) = {"start", "end"}
    /\ QueueNums(Entries[2]) = <<"1.1">>
    /\ QueueNums(Entries[3]) = <<"1.1">>
    /\ SelectSeq(Raw("1.1"), IsChangeType) = <<EmittedBy(2)>>


IsFullChange(iv) == iv.type = "change"

\* C20: for every queue the raw collection handed to reconciliation holds at
\* most one full replacement, that of the first full-replacement entry naming
\* the queue, also when that entry names other queues that were resolved
\* before; and once a queue has a full replacement no later start-shift entry
\* is recorded for it.
C20_OneFullPerQueue ==
    pc \in {"merge", "done"} =>
        LET es == Entries
        IN  \A q \in DOMAIN queues :
                LET fulls == SelectSeq(queues[q], IsFullChange)
                    cs == SelectSeq(queues[q], IsStartShift)
                    fa == {i \in 1..Len(es) : Highest(es[i]) = "full" /\ NamesQueue(es[i], q)}
                    sa == {i \in 1..Len(es) : Highest(es[i]) = "start" /\ NamesQueue(es[i], q)}
                IN  /\ Len(fulls) <= 1
                    /\ fa # {} => fulls = <<Emitted(es[Least(fa)])>>
                    /\ fa = {} => fulls = <<>>
                    /\ (fa # {} /\ cs # <<>>) => sa # {} /\ Least(sa) < Least(fa)

\* a full replacement for 1.1, then another one naming 1.1 and 1.2: the
\* second is ignored for 1.1 and recorded for 1.2
C20_Witness ==
    /\ pc = "done"
    /\ block.extras_text # <<>>
    /\ Len(Entries) = 3
    /\ Highest(Entries[2]) = "full" /\ QueueNums(Entries[2]) = <<"1.1">>
    /\ Highest(Entries[3]) = "full" /\ QueueNums(Entries[3]) = <<"1.1", "1.2">>
    /\ EmittedBy(2) # EmittedBy(3)
    /\ SelectSeq(Raw("1.1"), IsFullChange) = <<EmittedBy(2)>>
    /\ SelectSeq(Raw("1.2"), IsFullChange) = <<EmittedBy(3)>>


RECURSIVE ScopedLine(_, _, _, _)
\* the line read marker by marker: q is the queue of the marker whose scope
\* is open (<<>> before the first marker), found the intervals of the scope;
\* a scope with intervals replaces the entry of its queue
ScopedLine(qs, line, q, found) ==
    LET closed == IF q # <<>> /\ found # <<>> THEN Put(qs, q[1], found) ELSE qs
    IN  IF line = <<>> THEN closed
        ELSE IF IsMarker(Head(line))
        THEN ScopedLine(closed, Tail(line), <<Head(line).q>>, <<>>)
        ELSE IF IsRange(Head(line))
        THEN ScopedLine(qs, Tail(line), q, found \o LineIntervals(<<Head(line)>>))
        ELSE ScopedLine(qs, Tail(line), q, found)

RECURSIVE ScopedLoop(_, _)
ScopedLoop(qs, lines) ==
    IF lines = <<>> THEN qs
    ELSE ScopedLoop(ScopedLine(qs, Head(lines), <<>>, <<>>), Tail(lines))

\* C21: after the base table is read every marked queue holds the intervals
\* of its own scope, from its marker to the next marker of the line, and a
\* later scope of a queue replaces the entry of an earlier one.
C21_MarkerScopes ==
    pc = "changes" =>
        queues = ScopedLoop(EmptyDict, SplitNl(block.schedule_text, <<>>))


\* the call cannot be stored: a queue that is not seeded, or an interval
\* without a start or an end
Unstorable(call) ==
    \E q \in DOMAIN call.schedules :
        \E i \in 1..Len(call.schedules[q]) :
            \/ \A n \in 1..Len(SeededQueues) : SeededQueues[n] # q
            \/ call.schedules[q][i].start = None
            \/ call.schedules[q][i].end = None

\* C23: a call of save_schedule with an interval that cannot be inserted
\* raises, and a call that raises leaves the whole database as it was: the
\* intervals and messages of every date and last_updated.
C23_AllOrNothing ==
    [][Len(saves') = Len(saves) + 1 =>
          LET call == saves'[Len(saves')]
          IN  /\ Unstorable(call) => call.raised
              /\ call.raised => db' = db]_vars

\* a date stored with intervals and a message, then a call for the same
\* date that raised: the first data is still there
C23_Witness ==
    /\ Len(saves) = 2
    /\ ~saves[1].raised /\ saves[2].raised
    /\ saves[1].date = saves[2].date
    /\ Strip(saves[2].message) # <<>>
    /\ get_message(db, saves[1].date) = Strip(saves[1].message)
    /\ get_message(db, saves[1].date) # None
    /\ get_all_schedules(db, saves[1].date) # EmptyDict
    /\ get_metadata(db) = 1

(***************************************************************************)
(* C24                                                                     *)
(***************************************************************************)

SameDay(iv) == HasTimes(iv) /\ to_minutes(iv.start) < to_minutes(iv.end)

\* no start or end shift and only same-day intervals in the raw collection
PlainSameDay(raw) ==
    /\ raw # <<>>
    /\ NoShifts(raw)
    /\ \A i \in 1..Len(raw) : SameDay(raw[i])

\* some interval of ivs holds minute m
Covered(ivs, m) == \E i \in 1..Len(ivs) : InInterval(ivs[i], m)

\* the two lists cover the same minutes: coverage changes only at a start or
\* an end
SameCoverage(a, b) ==
    \A m \in Points(a \o b) : Covered(a, m) <=> Covered(b, m)

\* no list with fewer intervals covers the same minutes: every interval holds
\* a minute and any two are apart by at least one minute
Fewest(ivs) ==
    /\ \A i \in 1..Len(ivs) : SameDay(ivs[i])
    /\ \A i, j \in 1..Len(ivs) :
          i # j => \/ to_minutes(ivs[i].end) < to_minutes(ivs[j].start)
                   \/ to_minutes(ivs[j].end) < to_minutes(ivs[i].start)

\* C24: for a queue whose raw collection holds no start shift, no end shift
\* and only same-day intervals, the final intervals cover exactly the minutes
\* covered by its base, full-replacement and supplementary intervals, and
\* they are as few as can cover those minutes when touching intervals are
\* joined.
C24_CoverageExact ==
    pc = "done" =>
        \A q \in DOMAIN queues :
            PlainSameDay(Raw(q)) =>
                SameCoverage(Final(q), Raw(q)) /\ Fewest(Final(q))

(***************************************************************************)
(* C22                                                                     *)
(***************************************************************************)

RECURSIVE DbAfter(_)
\* the database left by the first k finished calls of save_schedule, each
\* taken whole and one after the other: that of the last of them that
\* committed, the initial one when none did
DbAfter(k) ==
    IF k = 0 THEN ConcDb
    ELSE IF saves[k].raised THEN DbAfter(k - 1)
    ELSE save_schedule(DbAfter(k - 1), saves[k].date, saves[k].schedules,
                       saves[k].message, saves[k].now).db

\* the step is a lookup of the request being served
IsLookup(name) ==
    /\ api' # api
    /\ Len(Lookups(api'.endpoint)) > Len(api'.left)
    /\ Lookups(api'.endpoint)[Len(Lookups(api'.endpoint)) - Len(api'.left)] = name

\* every lookup returns the data of the finished calls
SingleReads ==
    LET completed == DbAfter(Len(saves))
    IN  /\ IsLookup("get_schedule") =>
              api'.intervals = get_schedule(completed, api'.queue, api'.day)
        /\ IsLookup("get_all_schedules") =>
              api'.intervals = get_all_schedules(completed, api'.day)
        /\ IsLookup("get_message") =>
              api'.operational_message = get_message(completed, api'.day)

\* all calls of save_schedule have finished
AllFinished == \A w \in Writers : svc[w].pc = "done"

\* the stored data is that of the call that committed last
LastCommitWins ==
    AllFinished =>
        /\ db = DbAfter(Len(saves))
        /\ LastSave(SameDate) # 0 =>
              LET sv == saves[LastSave(SameDate)]
                  got == get_all_schedules(db, SameDate)
              IN  /\ DOMAIN got = DOMAIN sv.schedules
                  /\ \A q \in DOMAIN got : SameIntervals(got[q], sv.schedules[q])
                  /\ get_message(db, SameDate) = Strip(sv.message)
                  /\ get_metadata(db) = sv.now

\* C22: under any interleaving of calls of save_schedule and lookups
\* (get_schedule, get_all_schedules, get_message) for one date, each lookup
\* returns the data of one completed call or of the initial state, never the
\* state between the DELETE and the INSERT statements nor a mixture of two
\* calls; once all calls have finished the stored data is that of the call
\* that committed last.
C22_ReadsSeeCompletedSaves == [][SingleReads]_vars /\ []LastCommitWins

\* a lookup was made while a call of save_schedule was between its DELETE
\* and its INSERT statements, after another call had committed
C22_Witness ==
    /\ api.pc # "idle"
    /\ \E w \in Writers : svc[w].pc = "deleted"
    /\ \E k \in 1..Len(saves) : ~saves[k].raised

(***************************************************************************)
(* C25                                                                     *)
(***************************************************************************)

\* the response is what the three lookups give on one database
FromOne(dbs) ==
    /\ api.intervals = IF api.endpoint = "all" THEN get_all_schedules(dbs, api.day)
                       ELSE get_schedule(dbs, api.queue, api.day)
    /\ api.operational_message = get_message(dbs, api.day)
    /\ api.last_updated = get_metadata(dbs)

\* C25: a schedule response served while calls of save_schedule for its date
\* are in progress is a consistent snapshot: its intervals, its
\* operational_message and its last_updated all come from the same completed
\* call (or all from the initial state).
C25_ConsistentResponse ==
    api.pc = "responded" => \E k \in 0..Len(saves) : FromOne(DbAfter(k))

====
